---- MODULE Spec2Model ----
(***************************************************************************)
(* Model of the book-handling pipeline of handleEnglishBook: the markup    *)
(* block extractor, the plain-text segmenter, the callback-driven fragment *)
(* and image retrieval of the EPUB parser, and the chapter exporter.       *)
(*                                                                         *)
(* JavaScript strings are sequences of one-character strings, so that the  *)
(* regular expressions of the source are computed character by character.  *)
(***************************************************************************)
EXTENDS Integers, Sequences, FiniteSets, TLC

VARIABLES
  \* markup extractor: the fragment, the blocks returned, whether it ran
  html, blocks, mdone,
  \* plain-text segmenter: the text, the loop index i (0-based), the locals of
  \* extractStructureFromText, and whether it returned
  text, li, currentParagraph, paragraphIndex, inTOCSection, paragraphs, toc, tdone,
  \* extractContent: epub.flow, the state of each getChapter callback, the
  \* content array, the chapterIndex counter, whether the promise is resolved,
  \* and the state of the parseEPUB promise awaiting it
  flow, chapterCb, content, chapterIndex, contentResolved, epubState,
  \* extractImages: epub.manifest, the files of the images directory, per image
  \* item the position of its getImage callback with its filename, finalFilename
  \* and counter, the images array, the ids in the order they were pushed, and
  \* whether the promise is resolved
  manifest, files, imgPc, imgFilename, imgFinal, imgCounter, images, pushOrder,
  imagesResolved,
  \* generateBookInfoFiles: the document's tableOfContents and content,
  \* validChapters, contentByChapter, the number of chapters the loop is done
  \* with, the chapterData of each iteration, the files of the output
  \* directory, chapterFiles and the position of the call; the clock in
  \* milliseconds, the idCounter of generateUniqueId and the ids it returned
  docToc, docContent, validChapters, contentByChapter, chapterPos, chapterData,
  outFiles, chapterFiles, exportPc, now, idCounter, entryIds,
  \* the values the generateUniqueId of uniqueId.js returned, each with the
  \* clock reading of its call
  standaloneIds,
  \* extractParagraphs of the PDF parser: the text, the blocks returned, whether
  \* it ran
  pdfText, pdfParagraphs, pdfDone,
  \* createDocumentStructure: the arguments, the object returned, the position
  \* of the call
  dsArgs, document, dsPc

markupVars == <<html, blocks, mdone>>
txtVars == <<text, li, currentParagraph, paragraphIndex, inTOCSection,
             paragraphs, toc, tdone>>
contentVars == <<flow, chapterCb, content, chapterIndex, contentResolved, epubState>>
imageVars == <<manifest, files, imgPc, imgFilename, imgFinal, imgCounter, images,
               pushOrder, imagesResolved>>
exportVars == <<docToc, docContent, validChapters, contentByChapter, chapterPos,
                chapterData, outFiles, chapterFiles, exportPc, now, idCounter,
                entryIds, standaloneIds>>
pdfVars == <<pdfText, pdfParagraphs, pdfDone>>
documentVars == <<dsArgs, document, dsPc>>
vars == <<markupVars, txtVars, contentVars, imageVars, exportVars, pdfVars,
         documentVars>>

\* what the actions of one component leave alone
notMarkupVars  == <<txtVars, contentVars, imageVars, exportVars, pdfVars,
                   documentVars>>
notTxtVars     == <<markupVars, contentVars, imageVars, exportVars, pdfVars,
                   documentVars>>
notContentVars == <<markupVars, txtVars, imageVars, exportVars, pdfVars,
                   documentVars>>
notImageVars   == <<markupVars, txtVars, contentVars, exportVars, pdfVars,
                   documentVars>>
notExportVars  == <<markupVars, txtVars, contentVars, imageVars, pdfVars,
                   documentVars>>
notPdfVars     == <<markupVars, txtVars, contentVars, imageVars, exportVars,
                   documentVars>>
notDocumentVars == <<markupVars, txtVars, contentVars, imageVars, exportVars,
                     pdfVars>>

(***************************************************************************)
(* Characters and strings                                                  *)
(***************************************************************************)
UpperChars == <<"A","B","C","D","E","F","G","H","I","J","K","L","M",
                "N","O","P","Q","R","S","T","U","V","W","X","Y","Z">>
LowerChars == <<"a","b","c","d","e","f","g","h","i","j","k","l","m",
                "n","o","p","q","r","s","t","u","v","w","x","y","z">>
DigitChars == <<"0","1","2","3","4","5","6","7","8","9">>

Range(s) == {s[i] : i \in 1..Len(s)}

IsUpper(c) == c \in Range(UpperChars)
IsLower(c) == c \in Range(LowerChars)
IsDigit(c) == c \in Range(DigitChars)
\* \s of a JavaScript regular expression (the characters the inputs use)
IsSpace(c) == c \in {" ", "\n", "\t", "\r"}
\* what "." of a regular expression does not match
IsLineTerminator(c) == c \in {"\n", "\r"}

ToLowerChar(c) ==
  IF IsUpper(c) THEN LowerChars[CHOOSE i \in 1..26 : UpperChars[i] = c] ELSE c

toLowerCase(s) == [i \in 1..Len(s) |-> ToLowerChar(s[i])]

DigitValue(c) == (CHOOSE i \in 1..10 : DigitChars[i] = c) - 1

RECURSIVE ToStr(_)
\* String(n) of a natural number
ToStr(n) ==
  IF n < 10 THEN <<DigitChars[n + 1]>>
  ELSE ToStr(n \div 10) \o <<DigitChars[(n % 10) + 1]>>

RECURSIVE TrimStart(_)
TrimStart(s) ==
  IF s # <<>> /\ IsSpace(Head(s)) THEN TrimStart(Tail(s)) ELSE s

RECURSIVE TrimEnd(_)
TrimEnd(s) ==
  IF s # <<>> /\ IsSpace(s[Len(s)]) THEN TrimEnd(SubSeq(s, 1, Len(s) - 1)) ELSE s

\* String.prototype.trim
trim(s) == TrimEnd(TrimStart(s))

\* s.substring(i - 1): the part of s from the 1-based position i on
From(s, i) == SubSeq(s, i, Len(s))

\* the literal lit stands in s at position i, letters compared without case
MatchesAtCI(s, i, lit) ==
  /\ i >= 1
  /\ i + Len(lit) - 1 <= Len(s)
  /\ \A k \in 1..Len(lit) : ToLowerChar(s[i + k - 1]) = lit[k]

\* the literal lit stands in s at position i
MatchesAt(s, i, lit) ==
  /\ i >= 1
  /\ i + Len(lit) - 1 <= Len(s)
  /\ \A k \in 1..Len(lit) : s[i + k - 1] = lit[k]

RECURSIVE ReplaceAllLit(_, _, _)
\* s.replace(/lit/g, by) for a literal pattern
ReplaceAllLit(s, lit, by) ==
  IF s = <<>> THEN <<>>
  ELSE IF MatchesAt(s, 1, lit) THEN by \o ReplaceAllLit(From(s, Len(lit) + 1), lit, by)
  ELSE <<Head(s)>> \o ReplaceAllLit(Tail(s), lit, by)

RECURSIVE CollapseSpace(_)
\* s.replace(/\s+/g, ' ')
CollapseSpace(s) ==
  IF s = <<>> THEN <<>>
  ELSE IF IsSpace(Head(s)) THEN <<" ">> \o CollapseSpace(TrimStart(s))
  ELSE <<Head(s)>> \o CollapseSpace(Tail(s))

\* the position of the first c in s at or after i, 0 when there is none
IndexFrom(s, i, c) ==
  IF \E j \in i..Len(s) : s[j] = c
  THEN CHOOSE j \in i..Len(s) : s[j] = c /\ \A k \in i..(j - 1) : s[k] # c
  ELSE 0

RECURSIVE StripTags(_)
\* s.replace(/<[^>]+>/g, ' ')
StripTags(s) ==
  IF s = <<>> THEN <<>>
  ELSE LET gt == IndexFrom(s, 2, ">") IN
       IF Head(s) = "<" /\ gt >= 3
       THEN <<" ">> \o StripTags(From(s, gt + 1))
       ELSE <<Head(s)>> \o StripTags(Tail(s))

LitNbsp == <<"&","n","b","s","p",";">>
LitQuot == <<"&","q","u","o","t",";">>
LitAmp  == <<"&","a","m","p",";">>
LitLt   == <<"&","l","t",";">>
LitGt   == <<"&","g","t",";">>

stripHTML(s) ==
  trim(CollapseSpace(
    ReplaceAllLit(
      ReplaceAllLit(
        ReplaceAllLit(
          ReplaceAllLit(
            ReplaceAllLit(StripTags(s), LitNbsp, <<" ">>),
            LitQuot, <<"\"">>),
          LitAmp, <<"&">>),
        LitLt, <<"<">>),
      LitGt, <<">">>)))

RECURSIVE SplitOn(_, _)
\* s.split(c) for a one-character separator
SplitOn(s, c) ==
  LET at == IndexFrom(s, 1, c) IN
  IF at = 0 THEN <<s>>
  ELSE <<SubSeq(s, 1, at - 1)>> \o SplitOn(From(s, at + 1), c)

(***************************************************************************)
(* Markup block extractor: extractParagraphsFromHTML                       *)
(***************************************************************************)
LitScriptOpen  == <<"<","s","c","r","i","p","t">>
LitScriptClose == <<"<","/","s","c","r","i","p","t",">">>
LitStyleOpen   == <<"<","s","t","y","l","e">>
LitStyleClose  == <<"<","/","s","t","y","l","e",">">>
LitHeadingId   == <<"_","h","e","a","d","i","n","g","_">>
LitParaId      == <<"_","p","a","r","a","_">>

\* the first position at or after k where the literal close stands, 0 if none
FirstLitFrom(s, k, close) ==
  IF \E e \in k..Len(s) : MatchesAtCI(s, e, close)
  THEN CHOOSE e \in k..Len(s) :
         MatchesAtCI(s, e, close) /\ \A f \in k..(e - 1) : ~MatchesAtCI(s, f, close)
  ELSE 0

RECURSIVE RemoveElement(_, _, _)
\* s.replace(/<open[^>]*>[\s\S]*?<\/close>/gi, '')
RemoveElement(s, open, close) ==
  IF s = <<>> THEN <<>>
  ELSE LET gt == IndexFrom(s, Len(open) + 1, ">")
           e  == IF gt = 0 THEN 0 ELSE FirstLitFrom(s, gt + 1, close)
       IN IF MatchesAtCI(s, 1, open) /\ gt > 0 /\ e > 0
          THEN RemoveElement(From(s, e + Len(close)), open, close)
          ELSE <<Head(s)>> \o RemoveElement(Tail(s), open, close)

\* <\/h[1-6]> or <\/p> stands in s at position k (flag i: letters without case)
CloseAt(s, k, tag) ==
  IF tag = "h"
  THEN /\ MatchesAtCI(s, k, <<"<", "/", "h">>)
       /\ k + 4 <= Len(s)
       /\ s[k + 3] \in {"1","2","3","4","5","6"}
       /\ s[k + 4] = ">"
  ELSE MatchesAtCI(s, k, <<"<", "/", "p", ">">>)

CloseLen(tag) == IF tag = "h" THEN 5 ELSE 4

RECURSIVE FindClose(_, _, _)
\* (.*?) followed by the closing tag: the lazy group grows one character at a
\* time from position k and never over a line terminator; 0 when it fails
FindClose(s, k, tag) ==
  IF k > Len(s) THEN 0
  ELSE IF CloseAt(s, k, tag) THEN k
  ELSE IF IsLineTerminator(s[k]) THEN 0
  ELSE FindClose(s, k + 1, tag)

\* /<h([1-6])[^>]*>(.*?)<\/h[1-6]>/gi tried at position i
HeadingMatchAt(s, i) ==
  LET opens == /\ i + 2 <= Len(s)
               /\ s[i] = "<"
               /\ ToLowerChar(s[i + 1]) = "h"
               /\ s[i + 2] \in {"1","2","3","4","5","6"}
      gt == IF opens THEN IndexFrom(s, i + 3, ">") ELSE 0
      e  == IF gt = 0 THEN 0 ELSE FindClose(s, gt + 1, "h")
  IN IF e = 0 THEN [ok |-> FALSE]
     ELSE [ok |-> TRUE, level |-> DigitValue(s[i + 2]), start |-> i,
           inner |-> SubSeq(s, gt + 1, e - 1), last |-> e + CloseLen("h") - 1]

\* /<p[^>]*>(.*?)<\/p>/gi tried at position i
ParagraphMatchAt(s, i) ==
  LET opens == /\ i + 1 <= Len(s)
               /\ s[i] = "<"
               /\ ToLowerChar(s[i + 1]) = "p"
      gt == IF opens THEN IndexFrom(s, i + 2, ">") ELSE 0
      e  == IF gt = 0 THEN 0 ELSE FindClose(s, gt + 1, "p")
  IN IF e = 0 THEN [ok |-> FALSE]
     ELSE [ok |-> TRUE, start |-> i,
           inner |-> SubSeq(s, gt + 1, e - 1), last |-> e + CloseLen("p") - 1]

RECURSIVE HeadingMatches(_, _)
\* text.matchAll(heading pattern): the matches from position i on, left to right
HeadingMatches(s, i) ==
  IF i > Len(s) THEN <<>>
  ELSE LET m == HeadingMatchAt(s, i) IN
       IF m.ok THEN <<m>> \o HeadingMatches(s, m.last + 1)
       ELSE HeadingMatches(s, i + 1)

RECURSIVE ParagraphMatches(_, _)
\* text.matchAll(paragraph pattern)
ParagraphMatches(s, i) ==
  IF i > Len(s) THEN <<>>
  ELSE LET m == ParagraphMatchAt(s, i) IN
       IF m.ok THEN <<m>> \o ParagraphMatches(s, m.last + 1)
       ELSE ParagraphMatches(s, i + 1)

\* the heading loop: every match is pushed, whatever its stripped text.
\* The field `at` is not a field of the source's blocks: it records where the
\* block's tag starts in the text, so that source order can be stated.
PushHeadings(hs, chapterId, chapterIdx) ==
  [k \in 1..Len(hs) |->
     [id |-> chapterId \o LitHeadingId \o ToStr(k - 1),
      type |-> "heading",
      text |-> stripHTML(hs[k].inner),
      level |-> hs[k].level,
      chapter |-> chapterId,
      chapterIndex |-> chapterIdx,
      at |-> hs[k].start]]

RECURSIVE PushParagraphs(_, _, _, _)
\* the paragraph loop: a match is pushed when its stripped text is not blank
PushParagraphs(pushed, ps, chapterId, chapterIdx) ==
  IF ps = <<>> THEN pushed
  ELSE LET paraText == stripHTML(Head(ps).inner) IN
       IF Len(trim(paraText)) > 0
       THEN PushParagraphs(
              Append(pushed,
                [id |-> chapterId \o LitParaId \o ToStr(Len(pushed)),
                 type |-> "paragraph",
                 text |-> trim(paraText),
                 chapter |-> chapterId,
                 chapterIndex |-> chapterIdx,
                 at |-> Head(ps).start]),
              Tail(ps), chapterId, chapterIdx)
       ELSE PushParagraphs(pushed, Tail(ps), chapterId, chapterIdx)

\* the fallback: every non-blank line of the stripped text is a paragraph
FallbackLines(src, chapterId, chapterIdx) ==
  LET cleanText == stripHTML(src)
      lines == SelectSeq(SplitOn(cleanText, "\n"), LAMBDA l : Len(trim(l)) > 0)
  IN [idx \in 1..Len(lines) |->
        [id |-> chapterId \o LitParaId \o ToStr(idx - 1),
         type |-> "paragraph",
         text |-> trim(lines[idx]),
         chapter |-> chapterId,
         chapterIndex |-> chapterIdx,
         at |-> 0]]

extractParagraphsFromHTML(h, chapterId, chapterIdx) ==
  LET stripped == RemoveElement(RemoveElement(h, LitScriptOpen, LitScriptClose),
                                LitStyleOpen, LitStyleClose)
      pushed == PushParagraphs(
                      PushHeadings(HeadingMatches(stripped, 1), chapterId, chapterIdx),
                  ParagraphMatches(stripped, 1), chapterId, chapterIdx)
  IN IF Len(pushed) = 0
     THEN FallbackLines(stripped, chapterId, chapterIdx)
     ELSE pushed

(***************************************************************************)
(* Markup fragments the extractor is applied to: up to MaxElems pieces     *)
(***************************************************************************)
MaxElems == 3

OpenH1 == <<"<","h","1",">">>
EndH1  == <<"<","/","h","1",">">>
OpenH2 == <<"<","h","2",">">>
EndH2  == <<"<","/","h","2",">">>
OpenP  == <<"<","p",">">>
EndP   == <<"<","/","p",">">>
StrIntro == <<"I","n","t","r","o">>
StrText  == <<"T","e","x","t",".">>

MarkupPieces ==
  { OpenH1 \o StrIntro \o EndH1,               \* <h1>Intro</h1>
    OpenP \o StrText \o EndP,                  \* <p>Text.</p>
    OpenH2 \o <<" ">> \o EndH2,                \* <h2> </h2>
    OpenH2 \o <<"<","b",">","<","/","b",">">> \o EndH2,   \* <h2><b></b></h2>
    OpenP \o LitNbsp \o EndP,                  \* <p>&nbsp;</p>
    OpenP \o <<"x">>,                          \* <p>x        (never closed)
    EndP,                                      \* </p>
    <<"y">>,
    <<"\n">>,
    <<"<","b","r","/",">">> }                  \* <br/>

RECURSIVE Concat(_)
Concat(ss) == IF ss = <<>> THEN <<>> ELSE Head(ss) \o Concat(Tail(ss))

MarkupInputs ==
  { Concat(ps) : ps \in UNION { [1..n -> MarkupPieces] : n \in 0..MaxElems } }

FragmentId == <<"c","h","1">>

MarkupIdle ==
  /\ html = <<>>
  /\ blocks = <<>>
  /\ mdone = TRUE

TxtIdle ==
  /\ text = <<>>
  /\ li = 0
  /\ currentParagraph = <<>>
  /\ paragraphIndex = 0
  /\ inTOCSection = FALSE
  /\ paragraphs = <<>>
  /\ toc = <<>>
  /\ tdone = TRUE

ContentIdle ==
  /\ flow = <<>>
  /\ chapterCb = <<>>
  /\ content = <<>>
  /\ chapterIndex = 0
  /\ contentResolved = TRUE
  /\ epubState = "settled"

ImagesIdle ==
  /\ manifest = <<>>
  /\ files = {}
  /\ imgPc = <<>>
  /\ imgFilename = <<>>
  /\ imgFinal = <<>>
  /\ imgCounter = <<>>
  /\ images = <<>>
  /\ pushOrder = <<>>
  /\ imagesResolved = TRUE

PdfIdle ==
  /\ pdfText = <<>>
  /\ pdfParagraphs = <<>>
  /\ pdfDone = TRUE

DocumentIdle ==
  /\ dsArgs = <<>>
  /\ document = <<>>
  /\ dsPc = "idle"

\* a Map without entries
EmptyMap == [ k \in {} |-> <<>> ]

ExportIdle ==
  /\ docToc = <<>>
  /\ docContent = <<>>
  /\ validChapters = <<>>
  /\ contentByChapter = EmptyMap
  /\ chapterPos = 0
  /\ chapterData = <<>>
  /\ outFiles = EmptyMap
  /\ chapterFiles = <<>>
  /\ exportPc = "idle"
  /\ now = 0
  /\ idCounter = 0
  /\ entryIds = <<>>
  /\ standaloneIds = <<>>

MarkupInit ==
  /\ html \in MarkupInputs
  /\ blocks = <<>>
  /\ mdone = FALSE
  /\ TxtIdle /\ ContentIdle /\ ImagesIdle /\ ExportIdle /\ PdfIdle
     /\ DocumentIdle

\* one call extractParagraphsFromHTML(html, chapter.id, chapterIndex)
ExtractFragment ==
  /\ ~mdone
  /\ blocks' = extractParagraphsFromHTML(html, FragmentId, 0)
  /\ mdone' = TRUE
  /\ UNCHANGED <<html, notMarkupVars>>

MarkupNext == ExtractFragment

SpecMarkup == MarkupInit /\ [][MarkupNext]_vars

(***************************************************************************)
(* Plain-text segmenter: extractStructureFromText, isLikelyHeading,        *)
(* estimateHeadingLevel.  A character outside ASCII is the one-element     *)
(* string naming its code point.                                           *)
(***************************************************************************)
ChMu       == "U+76EE"   \* mu   (first character of the contents marker)
ChLu       == "U+5F55"   \* lu   (second character of the contents marker)
ChDi       == "U+7B2C"   \* di   (ordinal prefix)
ChZhang    == "U+7AE0"   \* zhang (chapter)
ChJie      == "U+8282"   \* jie  (section)
ChBu       == "U+90E8"   \* bu
ChFen      == "U+5206"   \* fen
ChPian     == "U+7BC7"   \* pian
ChJuan     == "U+5377"   \* juan (volume)
ChDunhao   == "U+3001"   \* ideographic comma used after a number
ChJuhao    == "U+3002"   \* ideographic full stop
ChDouhao   == "U+FF0C"   \* fullwidth comma
ChNumerals == {"U+4E00", "U+4E8C", "U+4E09", "U+56DB", "U+4E94",
               "U+516D", "U+4E03", "U+516B", "U+4E5D", "U+5341"}

IsNumberSep(c) == c \in {".", ChDunhao}
IsUnitChar(c) == c \in {ChZhang, ChJie, ChBu, ChFen, ChPian, ChJuan}

\* the length of the longest prefix of s, from position i, whose characters
\* all satisfy the test
RunLen(s, i, Test(_)) ==
  IF i > Len(s) THEN 0
  ELSE CHOOSE n \in 0..(Len(s) - i + 1) :
         /\ \A k \in i..(i + n - 1) : Test(s[k])
         /\ (i + n > Len(s) \/ ~Test(s[i + n]))

RECURSIVE parseInt(_)
\* parseInt of a string of decimal digits
parseInt(s) ==
  IF s = <<>> THEN 0
  ELSE 10 * parseInt(SubSeq(s, 1, Len(s) - 1)) + DigitValue(s[Len(s)])

\* line.match(/^[mu lu]{1,2}$/i) || line.match(/^mu\s*lu$/i)
IsTocMarker(line) ==
  \/ /\ Len(line) \in {1, 2}
     /\ \A k \in 1..Len(line) : line[k] \in {ChMu, ChLu}
  \/ /\ Len(line) >= 2
     /\ line[1] = ChMu
     /\ line[Len(line)] = ChLu
     /\ \A k \in 2..(Len(line) - 1) : IsSpace(line[k])

\* the rest of the line after the title, from position k: \s+\.{3,}\s*(\d+)$
DotsPageAt(line, k) ==
  LET ws   == RunLen(line, k, IsSpace)
      dots == RunLen(line, k + ws, LAMBDA c : c = ".")
      ws2  == RunLen(line, k + ws + dots, IsSpace)
      dig  == RunLen(line, k + ws + dots + ws2, IsDigit)
  IN [ok |-> /\ ws >= 1
             /\ dots >= 3
             /\ dig >= 1
             /\ k + ws + dots + ws2 + dig = Len(line) + 1,
      digits |-> SubSeq(line, k + ws + dots + ws2, Len(line))]

\* line.match(/^(.+?)\s+\.{3,}\s*(\d+)$/): the lazy title is the shortest one
DotsPageMatch(line) ==
  LET ends == {t \in 1..Len(line) :
                 /\ \A k \in 1..t : ~IsLineTerminator(line[k])
                 /\ DotsPageAt(line, t + 1).ok}
  IN IF ends = {} THEN [ok |-> FALSE]
     ELSE LET t == CHOOSE t \in ends : \A u \in ends : t <= u
          IN [ok |-> TRUE, title |-> SubSeq(line, 1, t),
              page |-> parseInt(DotsPageAt(line, t + 1).digits)]

\* line.match(/^(\d+[\.dunhao]\s*.+?)$/)
NumberedMatch(line) ==
  LET d == RunLen(line, 1, IsDigit) IN
  /\ d >= 1
  /\ d + 1 <= Len(line)
  /\ IsNumberSep(line[d + 1])
  /\ d + 2 <= Len(line)
  /\ \A k \in (d + 2)..Len(line) : ~IsLineTerminator(line[k])
  /\ ~IsLineTerminator(line[Len(line)])

RECURSIVE NumberPrefixGroups(_, _)
\* /^(\d+[\.dunhao]\s*)+/ from position i: how many groups the greedy match takes
NumberPrefixGroups(s, i) ==
  LET d == RunLen(s, i, IsDigit) IN
  IF d >= 1 /\ i + d <= Len(s) /\ IsNumberSep(s[i + d])
  THEN 1 + NumberPrefixGroups(s, i + d + 1 + RunLen(s, i + d + 1, IsSpace))
  ELSE 0

\* /^di[numerals \d]+([units])/i: the unit character matched, "" when no match
ChapterUnit(s) ==
  LET n == RunLen(s, 2, LAMBDA c : c \in ChNumerals \/ IsDigit(c)) IN
  IF /\ Len(s) >= 3
     /\ s[1] = ChDi
     /\ n >= 1
     /\ 2 + n <= Len(s)
     /\ IsUnitChar(s[2 + n])
  THEN s[2 + n]
  ELSE ""

estimateHeadingLevel(s) ==
  LET groups == NumberPrefixGroups(s, 1)
      type == ChapterUnit(s)
  IN IF groups > 0 THEN groups       \* match[0].split(/[\.dunhao]/).length - 1
     ELSE IF type \in {ChZhang, ChJuan} THEN 1
     ELSE IF type \in {ChJie, ChPian} THEN 2
     \* type === 'bu fen' never holds: the group is one character
     ELSE IF Len(s) < 20 THEN 1
     ELSE IF Len(s) < 40 THEN 2
     ELSE 3

\* isLikelyHeading(line, nextLine); hasNext is FALSE when nextLine is undefined
isLikelyHeading(line, hasNext, nextLine) ==
  IF Len(line) > 100 THEN FALSE
  ELSE IF /\ Len(line) >= 1
          /\ \A k \in 1..Len(line) : IsUpper(line[k]) \/ IsSpace(line[k])
          /\ Len(line) < 50
          /\ Len(line) > 3
       THEN TRUE
  ELSE IF LET d == RunLen(line, 1, IsDigit)
          IN d >= 1 /\ d + 1 <= Len(line) /\ IsNumberSep(line[d + 1])
       THEN TRUE
  ELSE IF ChapterUnit(line) # "" THEN TRUE
  \* nextLine && nextLine.trim().length === 0: an empty nextLine is falsy
  ELSE IF hasNext /\ Len(nextLine) > 0 /\ Len(trim(nextLine)) = 0 THEN TRUE
  ELSE IF /\ Len(line) < 50
          /\ \A k \in 1..Len(line) : line[k] \notin {ChJuhao, ChDouhao}
       THEN TRUE
  ELSE FALSE

LitPara    == <<"p","a","r","a","_">>
LitHeading == <<"h","e","a","d","i","n","g","_">>

\* the locals of extractStructureFromText as one record
TxtLocals ==
  [currentParagraph |-> currentParagraph, paragraphIndex |-> paragraphIndex,
   inTOCSection |-> inTOCSection, paragraphs |-> paragraphs, toc |-> toc]

\* if (currentParagraph.trim().length > 0) { paragraphs.push(...); currentParagraph = '' }
FlushParagraph(st) ==
  IF Len(trim(st.currentParagraph)) > 0
  THEN [st EXCEPT
          !.paragraphs = Append(@, [id |-> LitPara \o ToStr(st.paragraphIndex),
                                    type |-> "paragraph",
                                    text |-> trim(st.currentParagraph)]),
          !.paragraphIndex = @ + 1,
          !.currentParagraph = <<>>]
  ELSE st

\* the body branch of the loop: blank line, heading, or plain text line
BodyLine(st, line, hasNext, nextLine) ==
  IF Len(line) = 0 THEN FlushParagraph(st)
  ELSE IF isLikelyHeading(line, hasNext, nextLine)
  THEN LET f == FlushParagraph(st) IN
       [f EXCEPT
          !.paragraphs = Append(@, [id |-> LitHeading \o ToStr(f.paragraphIndex),
                                    type |-> "heading",
                                    text |-> line,
                                    level |-> estimateHeadingLevel(line)]),
          !.paragraphIndex = @ + 1]
  ELSE [st EXCEPT
          !.currentParagraph = (IF @ # <<>> THEN @ \o <<" ">> ELSE <<>>) \o line]

\* the table-of-contents entry a line read inside the region gives
TocEntry(line) ==
  LET m == DotsPageMatch(line) IN
  IF m.ok
  THEN [title |-> m.title, page |-> m.page, level |-> estimateHeadingLevel(m.title)]
  ELSE [title |-> line, page |-> -1, level |-> estimateHeadingLevel(line)]

\* one iteration of the for loop over lines; page -1 stands for null
SegmentLine(st, line, hasNext, nextLine) ==
  IF IsTocMarker(line)
  THEN [st EXCEPT !.inTOCSection = TRUE]
  ELSE IF st.inTOCSection /\ (DotsPageMatch(line).ok \/ NumberedMatch(line))
  THEN [st EXCEPT !.toc = Append(@, TocEntry(line))]
  ELSE IF st.inTOCSection /\ (Len(line) = 0 \/ Len(line) > 50)
  THEN BodyLine([st EXCEPT !.inTOCSection = FALSE], line, hasNext, nextLine)
  ELSE BodyLine(st, line, hasNext, nextLine)

TxtLines == SplitOn(text, "\n")

(***************************************************************************)
(* Texts the segmenter is applied to: up to MaxItems lines of any kind     *)
(* joined by one of three separators, and up to MaxProseItems chapter and  *)
(* prose lines, each separated from the next by one blank line             *)
(***************************************************************************)
MaxItems == 3
MaxProseItems == 4

RECURSIVE Repeat(_, _)
Repeat(s, n) == IF n = 0 THEN <<>> ELSE s \o Repeat(s, n - 1)

LineChapter1 == <<"C","h","a","p","t","e","r"," ","1">>
LineChapter2 == <<"C","h","a","p","t","e","r"," ","2">>
LineHello    == <<"H","e","l","l","o"," ","w","o","r","l","d",".">>
LineBye      == <<"B","y","e",".">>
LineMarker   == <<ChMu, ChLu>>
LineDotsPage == <<"I","n","t","r","o"," ",".",".","."," ","5">>
LineNumbered == <<"1","."," ","I","n","t","r","o">>
\* a prose line of 64 characters
LineLong     == Repeat(<<"w","o","r","d"," ">>, 12) \o <<"e","n","d",".">>

ChapterLines == {LineChapter1, LineChapter2}
ProseLines   == {LineHello, LineBye}
TxtItems == ChapterLines \cup ProseLines \cup
            {LineMarker, LineDotsPage, LineNumbered, LineLong}

SepNewline   == <<"\n">>
SepBlankLine == <<"\n", "\n">>
SepSpaceLine == <<"\n", " ", "\n">>
TxtSeparators == {SepNewline, SepBlankLine, SepSpaceLine}

RECURSIVE Join(_, _)
\* items.join(sep)
Join(items, sep) ==
  IF items = <<>> THEN <<>>
  ELSE IF Len(items) = 1 THEN Head(items)
  ELSE Head(items) \o sep \o Join(Tail(items), sep)

\* `Chapter <n>` lines and prose sentences, one blank line between them
ChapterProseInputs ==
  { Join(items, SepBlankLine) :
      items \in UNION { [1..n -> ChapterLines \cup ProseLines] :
                          n \in 0..MaxProseItems } }

TxtInputs ==
  { Join(items, sep) :
      items \in UNION { [1..n -> TxtItems] : n \in 0..MaxItems },
      sep \in TxtSeparators }
  \cup ChapterProseInputs

TxtInit ==
  /\ text \in TxtInputs
  /\ li = 0
  /\ currentParagraph = <<>>
  /\ paragraphIndex = 0
  /\ inTOCSection = FALSE
  /\ paragraphs = <<>>
  /\ toc = <<>>
  /\ tdone = FALSE
  /\ MarkupIdle /\ ContentIdle /\ ImagesIdle /\ ExportIdle /\ PdfIdle
     /\ DocumentIdle

\* the locals of extractStructureFromText become those of st
SetTxtLocals(st) ==
  /\ currentParagraph' = st.currentParagraph
  /\ paragraphIndex' = st.paragraphIndex
  /\ inTOCSection' = st.inTOCSection
  /\ paragraphs' = st.paragraphs
  /\ toc' = st.toc

\* the loop body for lines[li]
SegmentStep ==
  /\ ~tdone
  /\ li < Len(TxtLines)
  /\ LET line == trim(TxtLines[li + 1])
         hasNext == li + 2 <= Len(TxtLines)
         nextLine == IF hasNext THEN TxtLines[li + 2] ELSE <<>>
     IN  SetTxtLocals(SegmentLine(TxtLocals, line, hasNext, nextLine))
  /\ li' = li + 1
  /\ UNCHANGED <<text, tdone, notTxtVars>>

\* after the loop: the last paragraph is flushed and the function returns
SegmentReturn ==
  /\ ~tdone
  /\ li = Len(TxtLines)
  /\ LET st == FlushParagraph(TxtLocals)
     IN /\ currentParagraph' = st.currentParagraph
        /\ paragraphIndex' = st.paragraphIndex
        /\ paragraphs' = st.paragraphs
  /\ tdone' = TRUE
  /\ UNCHANGED <<text, li, inTOCSection, toc, notTxtVars>>

TxtNext == SegmentStep \/ SegmentReturn

SpecTxt == TxtInit /\ [][TxtNext]_vars

(***************************************************************************)
(* Texts with a table of contents: the marker line, entry lines of both    *)
(* forms, short and long, and prose lines, short and long                  *)
(***************************************************************************)
\* a line of 67 characters of the form `<number>. <title>`
LineLongNumbered == <<"2", ".", " ">> \o LineLong

TocRegionItems == {LineMarker, LineDotsPage, LineNumbered, LineLongNumbered,
                   LineLong, LineHello}

TocRegionInputs ==
  { Join(items, sep) :
      items \in UNION { [1..n -> TocRegionItems] : n \in 0..MaxItems },
      sep \in TxtSeparators }

TocRegionInit ==
  /\ text \in TocRegionInputs
  /\ li = 0
  /\ currentParagraph = <<>>
  /\ paragraphIndex = 0
  /\ inTOCSection = FALSE
  /\ paragraphs = <<>>
  /\ toc = <<>>
  /\ tdone = FALSE
  /\ MarkupIdle /\ ContentIdle /\ ImagesIdle /\ ExportIdle /\ PdfIdle
     /\ DocumentIdle

SpecTxtToc == TocRegionInit /\ [][TxtNext]_vars

(***************************************************************************)
(* extractContent and the parseEPUB promise that awaits it.  Every         *)
(* getChapter request is issued by the forEach loop; the callbacks run     *)
(* later, one at a time, in the order the reads complete.                  *)
(***************************************************************************)
MaxFlow == 3

FlowIds == << <<"c","1">>, <<"c","2">>, <<"c","3">>, <<"c","4">> >>

FragmentTexts ==
  { OpenP \o StrText \o EndP,                            \* <p>Text.</p>
    OpenH1 \o StrIntro \o EndH1 \o OpenP \o <<"x">> \o EndP,  \* <h1>Intro</h1><p>x</p>
    <<"y">> }                                            \* no tags: the fallback

\* the flows of n fragments: the ids are those of the manifest, all distinct
FlowsOf(n) ==
  { [k \in 1..n |-> [id |-> FlowIds[k], text |-> texts[k]]] :
      texts \in [1..n -> FragmentTexts] }

ContentInit ==
  /\ flow \in UNION { FlowsOf(n) : n \in 0..MaxFlow }
  /\ chapterCb = [k \in 1..Len(flow) |-> "unissued"]
  /\ content = <<>>
  /\ chapterIndex = 0
  /\ contentResolved = FALSE
  /\ epubState = "parsing"
  /\ MarkupIdle /\ TxtIdle /\ ImagesIdle /\ ExportIdle /\ PdfIdle
     /\ DocumentIdle

\* the executor of the promise: forEach issues every request, and an empty
\* flow resolves at once
ExtractContentCall ==
  /\ epubState = "parsing"
  /\ epubState' = "awaitContent"
  /\ chapterCb' = [k \in 1..Len(flow) |-> "pending"]
  /\ contentResolved' = (Len(flow) = 0)
  /\ UNCHANGED <<flow, content, chapterIndex, notContentVars>>

\* the callback of getChapter for flow[k] runs with an error: it returns
ChapterCallbackError(k) ==
  /\ chapterCb[k] = "pending"
  /\ chapterCb' = [chapterCb EXCEPT ![k] = "failed"]
  /\ UNCHANGED <<flow, content, chapterIndex, contentResolved, epubState,
                 notContentVars>>

\* blocks whose ids do not start with the fragment's id
PushedWithoutFragmentId(k) ==
  extractParagraphsFromHTML(flow[k].text, <<>>, chapterIndex)

\* the blocks one successful callback pushes, and the resolve test it ends with
PushedBy(k) == extractParagraphsFromHTML(flow[k].text, flow[k].id, chapterIndex)

ResolvesAt(k) == k - 1 = Len(flow) - 1

\* the callback of getChapter for flow[k] runs with the fragment's text
ChapterCallbackText(k) ==
  /\ chapterCb[k] = "pending"
  /\ chapterCb' = [chapterCb EXCEPT ![k] = "done"]
  /\ content' = content \o PushedBy(k)
  /\ chapterIndex' = chapterIndex + 1
  /\ contentResolved' = (contentResolved \/ ResolvesAt(k))
  /\ UNCHANGED <<flow, epubState, notContentVars>>

\* parseEPUB goes on after `await extractContent(epub)` and settles
ParseEPUBSettle ==
  /\ epubState = "awaitContent"
  /\ contentResolved
  /\ epubState' = "settled"
  /\ UNCHANGED <<flow, chapterCb, content, chapterIndex, contentResolved,
                 notContentVars>>

ContentNext ==
  \/ ExtractContentCall
  \/ \E k \in 1..Len(flow) : ChapterCallbackError(k)
  \/ \E k \in 1..Len(flow) : ChapterCallbackText(k)
  \/ ParseEPUBSettle

SpecContent == ContentInit /\ [][ContentNext]_vars


(***************************************************************************)
(* extractImages: one getImage request per image item of the manifest; the *)
(* callbacks run concurrently, each suspended at fs.access, fs.writeFile   *)
(* and fs.stat.  A path is the file name inside the images directory.      *)
(***************************************************************************)
MaxManifest == 2

LitImagePrefix == <<"i","m","a","g","e","/">>
MimePng  == LitImagePrefix \o <<"p","n","g">>
MimeJpeg == LitImagePrefix \o <<"j","p","e","g">>
MimeJpg  == LitImagePrefix \o <<"j","p","g">>
MimeGif  == LitImagePrefix \o <<"g","i","f">>
MimeWebp == LitImagePrefix \o <<"w","e","b","p">>
MimeSvg  == LitImagePrefix \o <<"s","v","g","+","x","m","l">>
MimeBmp  == LitImagePrefix \o <<"b","m","p">>
MimeCss  == <<"t","e","x","t","/","c","s","s">>

getExtensionFromMimeType(mimeType) ==
  LET m == toLowerCase(mimeType) IN
  IF m \in {MimeJpeg, MimeJpg} THEN <<".","j","p","g">>
  ELSE IF m = MimePng THEN <<".","p","n","g">>
  ELSE IF m = MimeGif THEN <<".","g","i","f">>
  ELSE IF m = MimeWebp THEN <<".","w","e","b","p">>
  ELSE IF m = MimeSvg THEN <<".","s","v","g">>
  ELSE IF m = MimeBmp THEN <<".","b","m","p">>
  ELSE <<".","j","p","g">>

\* the position of the last c in s, 0 when there is none
LastIndexOf(s, c) ==
  IF \E j \in 1..Len(s) : s[j] = c
  THEN CHOOSE j \in 1..Len(s) : s[j] = c /\ \A k \in (j + 1)..Len(s) : s[k] # c
  ELSE 0

\* path.basename(p) of a path that does not end in a slash
basename(p) == From(p, LastIndexOf(p, "/") + 1)

\* path.extname(p): from the last dot of the base name, unless it starts the name
extname(p) ==
  LET b == basename(p)
      d == LastIndexOf(b, ".")
  IN IF d <= 1 THEN <<>> ELSE From(b, d)

\* path.basename(p, ext)
basenameWithout(p, ext) ==
  LET b == basename(p) IN
  IF ext # <<>> /\ Len(b) > Len(ext) /\ From(b, Len(b) - Len(ext) + 1) = ext
  THEN SubSeq(b, 1, Len(b) - Len(ext))
  ELSE b

\* filename.replace(/[^a-zA-Z0-9._-]/g, '_')
SanitizeFilename(f) ==
  [i \in 1..Len(f) |->
     IF IsUpper(f[i]) \/ IsLower(f[i]) \/ IsDigit(f[i]) \/ f[i] \in {".", "_", "-"}
     THEN f[i] ELSE "_"]

\* the file name an image item is first given (lines 287-296)
ImageFilename(item, mimeType) ==
  LET extension == getExtensionFromMimeType(
                     IF mimeType # <<>> THEN mimeType ELSE item.mediaType)
      base == basename(IF item.href # <<>> THEN item.href ELSE item.id)
  IN SanitizeFilename(IF extname(base) = <<>> THEN base \o extension ELSE base)

\* `${nameWithoutExt}_${counter}${path.extname(filename)}`
NumberedFilename(filename, counter) ==
  basenameWithout(filename, extname(filename)) \o <<"_">> \o ToStr(counter)
    \o extname(filename)

\* mediaType && mediaType.startsWith('image/')
IsImageEntry(e) == e.mediaType # <<>> /\ MatchesAt(e.mediaType, 1, LitImagePrefix)

\* imageItems: the image entries of the manifest, in the order of its entries
imageItems == SelectSeq(manifest, IsImageEntry)

\* imageItems.findIndex((item) => item.id === id), 1-based, 0 when not found
FindIndex(id) ==
  IF \E k \in 1..Len(imageItems) : imageItems[k].id = id
  THEN CHOOSE k \in 1..Len(imageItems) :
         imageItems[k].id = id /\ \A j \in 1..(k - 1) : imageItems[j].id # id
  ELSE 0

RECURSIVE InsertByIndex(_, _)
InsertByIndex(sorted, rec) ==
  IF sorted = <<>> THEN <<rec>>
  ELSE IF FindIndex(sorted[Len(sorted)].id) - FindIndex(rec.id) <= 0
  THEN Append(sorted, rec)
  ELSE Append(InsertByIndex(SubSeq(sorted, 1, Len(sorted) - 1), rec),
              sorted[Len(sorted)])

RECURSIVE SortByManifestIndex(_)
\* images.sort((a, b) => indexA - indexB): a stable sort
SortByManifestIndex(recs) ==
  IF recs = <<>> THEN <<>>
  ELSE InsertByIndex(SortByManifestIndex(SubSeq(recs, 1, Len(recs) - 1)),
                     recs[Len(recs)])

ManifestIds == << <<"i","1">>, <<"i","2">>, <<"i","3">>, <<"i","4">> >>

ManifestKinds ==
  { [href |-> <<"a","/","i","m","g",".","p","n","g">>, mediaType |-> MimePng],
    [href |-> <<"b","/","i","m","g",".","p","n","g">>, mediaType |-> MimePng],
    [href |-> <<"i","m","g">>, mediaType |-> MimePng],
    [href |-> <<"s",".","c","s","s">>, mediaType |-> MimeCss] }

ManifestsOf(n) ==
  { [k \in 1..n |-> [id |-> ManifestIds[k], href |-> kinds[k].href,
                     mediaType |-> kinds[k].mediaType]] :
      kinds \in [1..n -> ManifestKinds] }

ImgPng == <<"i","m","g",".","p","n","g">>

ImagesInit ==
  /\ manifest \in UNION { ManifestsOf(n) : n \in 0..MaxManifest }
  /\ files \in {{}, {ImgPng}}
  /\ imgPc = [k \in 1..Len(imageItems) |-> "unissued"]
  /\ imgFilename = [k \in 1..Len(imageItems) |-> <<>>]
  /\ imgFinal = [k \in 1..Len(imageItems) |-> <<>>]
  /\ imgCounter = [k \in 1..Len(imageItems) |-> 1]
  /\ images = <<>>
  /\ pushOrder = <<>>
  /\ imagesResolved = FALSE
  /\ MarkupIdle /\ TxtIdle /\ ContentIdle /\ ExportIdle /\ PdfIdle
     /\ DocumentIdle

\* the record pushed for an image that could not be read or saved; the empty
\* string stands for savedPath: null
FailedImage(item) ==
  [id |-> item.id, href |-> item.href, mediaType |-> item.mediaType,
   savedPath |-> <<>>, error |-> TRUE]

SavedImage(item, path) ==
  [id |-> item.id, href |-> item.href, mediaType |-> item.mediaType,
   savedPath |-> path, error |-> FALSE]

\* up to the first getImage: mkdir, the filter, the early resolve of an empty
\* list, and one request per image item
ExtractImagesCall ==
  /\ ~imagesResolved
  /\ \A k \in 1..Len(imageItems) : imgPc[k] = "unissued"
  /\ imgPc' = [k \in 1..Len(imageItems) |-> "pending"]
  /\ imagesResolved' = (Len(imageItems) = 0)
  /\ UNCHANGED <<manifest, files, imgFilename, imgFinal, imgCounter, images,
                 pushOrder, notImageVars>>

\* the callback runs with an error: the record is pushed, resolveItem()
GetImageError(k) ==
  /\ imgPc[k] = "pending"
  /\ images' = Append(images, FailedImage(imageItems[k]))
  /\ pushOrder' = Append(pushOrder, imageItems[k].id)
  /\ imgPc' = [imgPc EXCEPT ![k] = "done"]
  /\ UNCHANGED <<manifest, files, imgFilename, imgFinal, imgCounter,
                 imagesResolved, notImageVars>>

\* the callback runs with the image: the file name is made, fs.access is awaited
GetImageData(k) ==
  /\ imgPc[k] = "pending"
  /\ LET filename == ImageFilename(imageItems[k], imageItems[k].mediaType)
     IN /\ imgFilename' = [imgFilename EXCEPT ![k] = filename]
        /\ imgFinal' = [imgFinal EXCEPT ![k] = filename]
  /\ imgPc' = [imgPc EXCEPT ![k] = "access"]
  /\ UNCHANGED <<manifest, files, imgCounter, images, pushOrder, imagesResolved,
                 notImageVars>>

\* fs.access(imagePath) settles: the file exists and the next name is tried,
\* or it does not and the loop is left for fs.writeFile
AccessSettles(k) ==
  /\ imgPc[k] = "access"
  /\ IF imgFinal[k] \in files
     THEN /\ imgFinal' = [imgFinal EXCEPT
                            ![k] = NumberedFilename(imgFilename[k], imgCounter[k])]
          /\ imgCounter' = [imgCounter EXCEPT ![k] = @ + 1]
          /\ UNCHANGED imgPc
     ELSE /\ imgPc' = [imgPc EXCEPT ![k] = "write"]
          /\ UNCHANGED <<imgFinal, imgCounter>>
  /\ UNCHANGED <<manifest, files, imgFilename, images, pushOrder, imagesResolved,
                 notImageVars>>

\* fs.writeFile(imagePath, imgBuffer) settles: the file is there
WriteSettles(k) ==
  /\ imgPc[k] = "write"
  /\ files' = files \cup {imgFinal[k]}
  /\ imgPc' = [imgPc EXCEPT ![k] = "stat"]
  /\ UNCHANGED <<manifest, imgFilename, imgFinal, imgCounter, images, pushOrder,
                 imagesResolved, notImageVars>>

\* fs.writeFile rejects: the catch pushes the record, resolveItem()
WriteFails(k) ==
  /\ imgPc[k] = "write"
  /\ images' = Append(images, FailedImage(imageItems[k]))
  /\ pushOrder' = Append(pushOrder, imageItems[k].id)
  /\ imgPc' = [imgPc EXCEPT ![k] = "done"]
  /\ UNCHANGED <<manifest, files, imgFilename, imgFinal, imgCounter,
                 imagesResolved, notImageVars>>

\* fs.stat settles: the record with savedPath is pushed, resolveItem()
StatSettles(k) ==
  /\ imgPc[k] = "stat"
  /\ images' = Append(images, SavedImage(imageItems[k], imgFinal[k]))
  /\ pushOrder' = Append(pushOrder, imageItems[k].id)
  /\ imgPc' = [imgPc EXCEPT ![k] = "done"]
  /\ UNCHANGED <<manifest, files, imgFilename, imgFinal, imgCounter,
                 imagesResolved, notImageVars>>

\* a resolve without the sort: the records in the order they were pushed
ImagesAsPushed == images

\* what the images array is when the promise resolves
SortedImages == SortByManifestIndex(images)

\* Promise.all(imagePromises) is fulfilled: sort, resolve(images)
ImagesJoin ==
  /\ ~imagesResolved
  /\ Len(imageItems) > 0
  /\ \A k \in 1..Len(imageItems) : imgPc[k] = "done"
  /\ images' = SortedImages
  /\ imagesResolved' = TRUE
  /\ UNCHANGED <<manifest, files, imgPc, imgFilename, imgFinal, imgCounter,
                 pushOrder, notImageVars>>

ImagesNext ==
  \/ ExtractImagesCall
  \/ \E k \in 1..Len(imageItems) : GetImageError(k)
  \/ \E k \in 1..Len(imageItems) : GetImageData(k)
  \/ \E k \in 1..Len(imageItems) : AccessSettles(k)
  \/ \E k \in 1..Len(imageItems) : WriteSettles(k)
  \/ \E k \in 1..Len(imageItems) : WriteFails(k)
  \/ \E k \in 1..Len(imageItems) : StatSettles(k)
  \/ ImagesJoin

SpecImages == ImagesInit /\ [][ImagesNext]_vars

(***************************************************************************)
(* PDF paragraph extractor: extractParagraphs of pdfParser.js with its     *)
(* isHeading and estimateHeadingLevel                                      *)
(***************************************************************************)
ChBai == "U+767E"   \* bai (hundred)

\* text.split(/\r?\n/)
SplitLines(s) ==
  LET pieces == SplitOn(s, "\n") IN
  [ k \in 1..Len(pieces) |->
      IF k < Len(pieces) /\ pieces[k] # <<>> /\ pieces[k][Len(pieces[k])] = "\r"
      THEN SubSeq(pieces[k], 1, Len(pieces[k]) - 1)
      ELSE pieces[k] ]

IsPdfNumeral(c) == c \in ChNumerals \cup {ChBai}

\* di, numerals, zhang stand in s from position i
NumeralChapterAt(s, i) ==
  /\ i <= Len(s)
  /\ s[i] = ChDi
  /\ LET n == RunLen(s, i + 1, IsPdfNumeral)
     IN  n >= 1 /\ i + 1 + n <= Len(s) /\ s[i + 1 + n] = ChZhang

\* di, digits, jie stand in s from position i
DigitSectionAt(s, i) ==
  /\ i <= Len(s)
  /\ s[i] = ChDi
  /\ LET d == RunLen(s, i + 1, IsDigit)
     IN  d >= 1 /\ i + 1 + d <= Len(s) /\ s[i + 1 + d] = ChJie

\* /^\d+(\.|dunhao)/ matches s
NumberPrefix(s) ==
  LET d == RunLen(s, 1, IsDigit)
  IN  d >= 1 /\ d + 1 <= Len(s) /\ IsNumberSep(s[d + 1])

isHeading(line, next) ==
  IF \/ NumeralChapterAt(line, 1)
     \/ DigitSectionAt(line, 1)
     \/ /\ MatchesAt(line, 1, <<"C","h","a","p","t","e","r">>)
        /\ LET w == RunLen(line, 8, IsSpace)
           IN  w >= 1 /\ 8 + w <= Len(line) /\ IsDigit(line[8 + w])
  THEN TRUE
  ELSE IF /\ Len(line) >= 1
          /\ \A k \in 1..Len(line) : IsUpper(line[k]) \/ IsSpace(line[k])
          /\ Len(line) < 50
       THEN TRUE
  ELSE IF NumberPrefix(line) THEN TRUE
  ELSE Len(next) = 0

\* estimateHeadingLevel of pdfParser.js
pdfEstimateHeadingLevel(line) ==
  IF \E i \in 1..Len(line) : NumeralChapterAt(line, i) THEN 1
  ELSE IF \E i \in 1..Len(line) : DigitSectionAt(line, i) THEN 2
  \* the lazy (...)+? matches one group: match[0].split gives two parts
  ELSE IF NumberPrefix(line) THEN 2
  ELSE 3

\* the locals of extractParagraphs before the loop
PdfLocals == [ paragraphs |-> <<>>, current |-> <<>>, id |-> 0 ]

\* if (current) { paragraphs.push({id: `para_${id++}`, ...}) }
PdfFlush(st) ==
  IF st.current # <<>>
  THEN [ paragraphs |-> Append(st.paragraphs,
                          [ id |-> LitPara \o ToStr(st.id), type |-> "paragraph",
                            text |-> st.current ]),
         current |-> <<>>,
         id |-> st.id + 1 ]
  ELSE st

\* one iteration of the loop of extractParagraphs
PdfLine(st, line, next) ==
  IF line = <<>> THEN st
  ELSE IF isHeading(line, next)
  THEN LET fl == PdfFlush(st) IN
       [ paragraphs |-> Append(fl.paragraphs,
                          [ id |-> LitHeading \o ToStr(fl.id), type |-> "heading",
                            text |-> line, level |-> pdfEstimateHeadingLevel(line) ]),
         current |-> <<>>,
         id |-> fl.id + 1 ]
  ELSE [ st EXCEPT !.current =
           (IF st.current # <<>> THEN st.current \o <<" ">> ELSE <<>>) \o line ]

RECURSIVE PdfLoop(_, _, _)
\* the loop from the 1-based line k on
PdfLoop(st, lines, k) ==
  IF k > Len(lines) THEN st
  ELSE PdfLoop(PdfLine(st, trim(lines[k]),
                       IF k < Len(lines) THEN trim(lines[k + 1]) ELSE <<>>),
               lines, k + 1)

extractParagraphs(t) == PdfFlush(PdfLoop(PdfLocals, SplitLines(t), 1)).paragraphs

\* the texts pdf-parse hands over: those of the segmenter, and some with the
\* lines ending in \r\n
PdfInputs ==
  TxtInputs \cup { Join(items, <<"\r", "\n">>) :
                     items \in UNION { [1..n -> TxtItems] : n \in 1..MaxItems } }

PdfInit ==
  /\ pdfText \in PdfInputs
  /\ pdfParagraphs = <<>>
  /\ pdfDone = FALSE
  /\ MarkupIdle /\ TxtIdle /\ ContentIdle /\ ImagesIdle /\ ExportIdle
     /\ DocumentIdle

\* the call extractParagraphs(text) of parsePDF
ExtractPdfParagraphs ==
  /\ ~pdfDone
  /\ pdfParagraphs' = extractParagraphs(pdfText)
  /\ pdfDone' = TRUE
  /\ UNCHANGED <<pdfText, notPdfVars>>

PdfNext == ExtractPdfParagraphs

SpecPdf == PdfInit /\ [][PdfNext]_vars

(***************************************************************************)
(* The three parsers side by side: a run is a run of one of them           *)
(***************************************************************************)
ParsersInit == TxtInit \/ PdfInit \/ ContentInit

ParsersNext ==
  \/ TxtNext
  \/ PdfNext
  \/ ContentNext

SpecParsers == ParsersInit /\ [][ParsersNext]_vars

(***************************************************************************)
(* generateUniqueId and the chapter exporter generateBookInfoFiles         *)
(***************************************************************************)

\* the value of a property that is absent: no string, since a string is a
\* sequence of one-character strings
Undefined == <<"undefined">>

\* JavaScript truthiness of a string-valued property
Truthy(s) == s # Undefined /\ s # <<>>

\* (s || '')
OrEmpty(s) == IF Truthy(s) THEN s ELSE <<>>

\* s.includes(lit)
Includes(s, lit) == \E i \in 1..(Len(s) + 1) : MatchesAt(s, i, lit)

excludeKeywords ==
  << <<"c","o","v","e","r">>,
     <<"t","i","t","l","e"," ","p","a","g","e">>,
     <<"c","o","p","y","r","i","g","h","t">>,
     <<"c","o","n","t","e","n","t","s">>,
     <<"t","o","c">>,
     <<"d","e","d","i","c","a","t","i","o","n">>,
     <<"p","r","e","v","i","e","w">>,
     <<"s","p","e","c","i","a","l"," ","p","r","e","v","i","e","w">> >>

excludeIds ==
  << <<"c","v","i">>, <<"c","v","t">>, <<"t","p">>, <<"c","o","p">>,
     <<"t","o","c">>, <<"d","e","d">>, <<"f","m","1">>, <<"f","m","2">>,
     <<"f","m","3">>, <<"b","m","1">>, <<"c","0","1","1">> >>

\* a predicate that looks at the title only
ValidByTitleOnly(tocItem) ==
  ~ \E k \in 1..Len(excludeKeywords) :
      Includes(toLowerCase(OrEmpty(tocItem.title)), excludeKeywords[k])

isValidChapter(tocItem) ==
  LET title == toLowerCase(OrEmpty(tocItem.title))
      id    == toLowerCase(OrEmpty(tocItem.id))
  IN  IF id \in Range(excludeIds) THEN FALSE
      ELSE ~ \E k \in 1..Len(excludeKeywords) : Includes(title, excludeKeywords[k])

RECURSIVE UnderscoreSpace(_)
\* s.replace(/\s+/g, '_')
UnderscoreSpace(s) ==
  IF s = <<>> THEN <<>>
  ELSE IF IsSpace(Head(s)) THEN <<"_">> \o UnderscoreSpace(TrimStart(s))
  ELSE <<Head(s)>> \o UnderscoreSpace(Tail(s))

LitChapter == <<"c","h","a","p","t","e","r">>
LitChapterUnderscore == <<"c","h","a","p","t","e","r","_">>
LitChapterSpace == <<"C","h","a","p","t","e","r"," ">>
LitDefault == <<"d","e","f","a","u","l","t">>
LitJsonExt == <<".","j","s","o","n">>
LitBookinfoJson == <<"b","o","o","k","i","n","f","o",".","j","s","o","n">>

\* s.replace(/^chapter\s*(\d+)/i, 'chapter_$1')
ReplaceChapterNumber(s) ==
  IF ~MatchesAtCI(s, 1, LitChapter) THEN s
  ELSE LET w == RunLen(s, 8, IsSpace)
           d == RunLen(s, 8 + w, IsDigit)
       IN  IF d = 0 THEN s
           ELSE LitChapterUnderscore \o SubSeq(s, 8 + w, 8 + w + d - 1)
                  \o From(s, 8 + w + d)

SlugLimit == 50

\* chapterNameToFileName with /\s/g in the place of /\s+/g
FileNameUnderscoringEachSpace(name) ==
  LET lower == toLowerCase(name)
      kept  == SelectSeq(lower, LAMBDA c : IsLower(c) \/ IsDigit(c) \/ IsSpace(c))
      named == ReplaceChapterNumber([i \in 1..Len(kept) |->
                                       IF IsSpace(kept[i]) THEN "_" ELSE kept[i]])
  IN  SubSeq(named, 1, IF Len(named) < SlugLimit THEN Len(named) ELSE SlugLimit)

chapterNameToFileName(name) ==
  LET lower == toLowerCase(name)
      kept  == SelectSeq(lower, LAMBDA c : IsLower(c) \/ IsDigit(c) \/ IsSpace(c))
      named == ReplaceChapterNumber(UnderscoreSpace(kept))
  IN  SubSeq(named, 1, IF Len(named) < SlugLimit THEN Len(named) ELSE SlugLimit)

\* validChapters as mapped from the entries of the table of contents that
\* pass isValidChapter
ChaptersFromToc(tableOfContents) ==
  LET allTocItems == SelectSeq(tableOfContents, isValidChapter) IN
  [ i \in 1..Len(allTocItems) |->
      LET tocItem  == allTocItems[i]
          fileName == chapterNameToFileName(tocItem.title)
      IN  [ name  |-> IF Truthy(tocItem.title) THEN tocItem.title
                      ELSE LitChapterSpace \o ToStr(i),
            file  |-> IF fileName # <<>> THEN fileName
                      ELSE LitChapterUnderscore \o ToStr(i),
            index |-> i,
            zh    |-> <<>>,
            tocId |-> tocItem.id ] ]

RECURSIVE ChaptersFromContent(_, _)
\* the values of chapterMap, in insertion order, after the items of cont were
\* visited starting from the chapters in acc
ChaptersFromContent(cont, acc) ==
  IF cont = <<>> THEN acc
  ELSE LET item == Head(cont)
           size == Len(acc)
           chapterName ==
             IF Truthy(item.text) THEN item.text
             ELSE LitChapterSpace \o
                    ToStr(IF item.chapterIndex # 0 THEN item.chapterIndex ELSE size + 1)
           fileName == chapterNameToFileName(chapterName)
       IN  IF Truthy(item.chapter) /\ ~ \E j \in 1..size : acc[j].tocId = item.chapter
           THEN ChaptersFromContent(Tail(cont),
                  Append(acc, [ name  |-> chapterName,
                                file  |-> IF fileName # <<>> THEN fileName
                                          ELSE LitChapterUnderscore \o ToStr(size + 1),
                                index |-> size + 1,
                                zh    |-> <<>>,
                                tocId |-> item.chapter ]))
           ELSE ChaptersFromContent(Tail(cont), acc)

DefaultChapter ==
  [ name  |-> LitChapterSpace \o <<"1">>,
    file  |-> LitChapterUnderscore \o <<"1">>,
    index |-> 1,
    zh    |-> <<>>,
    tocId |-> LitDefault ]

\* validChapters as generateBookInfoFiles derives it
ValidChaptersOf(tableOfContents, cont) ==
  LET fromToc     == ChaptersFromToc(tableOfContents)
      fromContent == IF Len(fromToc) = 0 THEN ChaptersFromContent(cont, <<>>)
                     ELSE fromToc
  IN  IF Len(fromContent) = 0 THEN <<DefaultChapter>> ELSE fromContent

\* map.set(key, value)
MapSet(map, key, value) ==
  [ k \in DOMAIN map \cup {key} |-> IF k = key THEN value ELSE map[k] ]

RECURSIVE InitBuckets(_, _)
\* validChapters.forEach(chapter => contentByChapter.set(chapter.tocId, []))
InitBuckets(chapters, map) ==
  IF chapters = <<>> THEN map
  ELSE InitBuckets(Tail(chapters), MapSet(map, Head(chapters).tocId, <<>>))

RECURSIVE AssignContent(_, _, _)
\* content.forEach(item => ...) of the grouping step
AssignContent(cont, chapters, map) ==
  IF cont = <<>> THEN map
  ELSE LET item      == Head(cont)
           chapterId == IF Truthy(item.chapter) THEN item.chapter ELSE LitDefault
       IN  IF chapterId \in DOMAIN map
           THEN AssignContent(Tail(cont), chapters,
                  MapSet(map, chapterId, Append(map[chapterId], item)))
           ELSE LET defaultChapterId ==
                      IF Len(chapters) > 0 /\ Truthy(chapters[1].tocId)
                      THEN chapters[1].tocId ELSE LitDefault
                    withDefault ==
                      IF defaultChapterId \in DOMAIN map THEN map
                      ELSE MapSet(map, defaultChapterId, <<>>)
                IN  AssignContent(Tail(cont), chapters,
                      MapSet(withDefault, defaultChapterId,
                             Append(withDefault[defaultChapterId], item)))

\* the buckets as initialised, with no block assigned
BucketsWithoutContent(chapters, cont) == InitBuckets(chapters, EmptyMap)

ContentByChapterOf(chapters, cont) ==
  AssignContent(cont, chapters, InitBuckets(chapters, EmptyMap))

\* the counter of generateUniqueId runs modulo this
CounterCycle == 10000

\* s.slice(-n)
SliceLast(s, n) == IF Len(s) <= n THEN s ELSE SubSeq(s, Len(s) - n + 1, Len(s))

\* s.padStart(n, c)
padStart(s, n, c) ==
  IF Len(s) >= n THEN s ELSE [ i \in 1..(n - Len(s)) |-> c ] \o s

\* Date.now() is a 13-digit number of milliseconds: the digits of its seconds,
\* and the variable now for the milliseconds that passed since then
EpochSeconds == <<"1","7","6","2","3","8","7","2","0","0">>

\* String(timestamp) when the clock reads t
TimestampString(t) == EpochSeconds \o padStart(ToStr(t), 3, "0")

\* one call of generateUniqueId when Date.now() reads t and idCounter is
\* counter: the id returned and the idCounter left behind
generateUniqueId(t, counter) ==
  LET next          == (counter + 1) % CounterCycle
      timestampPart == SliceLast(TimestampString(t), 12)
      counterPart   == padStart(ToStr(next), 4, "0")
  IN  [ id |-> timestampPart \o counterPart, idCounter |-> next ]

\* the ids the forEach of one chapter gives to n usable blocks, one call of
\* generateUniqueId after the other, when the clock reads t for the first k
\* calls and t + 1 from then on
EntryIds(n, k, t, counter) ==
  [ i \in 1..n |->
      generateUniqueId(IF i <= k THEN t ELSE t + 1,
                       (counter + i - 1) % CounterCycle).id ]

\* item.text && item.text.trim()
Usable(item) == Truthy(item.text) /\ trim(item.text) # <<>>

\* a chapterData whose pages array is empty when no block has text
ChapterDataNoEmptyPage(chapter, chapterContent, ids) ==
  LET usable == SelectSeq(chapterContent, Usable)
      page   == [ i \in 1..Len(usable) |->
                    [ en |-> trim(usable[i].text), zh |-> <<>>, id |-> ids[i] ] ]
  IN  [ name |-> chapter.name, zh |-> <<>>,
        pages |-> IF Len(page) > 0 THEN <<page>> ELSE <<>> ]

\* the chapterData of one chapter, its entries carrying the given ids
ChapterDataOf(chapter, chapterContent, ids) ==
  LET usable      == SelectSeq(chapterContent, Usable)
      currentPage == [ i \in 1..Len(usable) |->
                         [ en |-> trim(usable[i].text), zh |-> <<>>, id |-> ids[i] ] ]
      pages       == IF Len(currentPage) > 0 THEN <<currentPage>> ELSE << <<>> >>
  IN  [ name |-> chapter.name, zh |-> <<>>, pages |-> pages ]

\* the chapters array of bookinfo.json
BookInfoChapters(chapters) ==
  [ i \in 1..Len(chapters) |->
      [ name |-> chapters[i].name, file |-> chapters[i].file,
        index |-> chapters[i].index, zh |-> chapters[i].zh ] ]

(***************************************************************************)
(* Documents handed to the exporter                                        *)
(***************************************************************************)
MaxToc == 2
MaxContent == 2
MaxClock == 1
MaxPages == 3

StrIntroBang == <<"I","n","t","r","o","!">>
StrCover == <<"C","o","v","e","r">>
StrNotes == <<"N","o","t","e","s">>
StrBangs == <<"!","!">>
StrHello == <<"H","e","l","l","o">>
StrBye == <<"B","y","e">>
IdC1 == <<"c","1">>
IdC2 == <<"c","2">>
IdC3 == <<"c","3">>
IdC9 == <<"c","9">>
IdToc == <<"T","o","c">>

\* entries as the EPUB parser makes them (title and id) and as the text and
\* PDF parsers make them (no id)
TocKinds ==
  { [ title |-> StrIntro,     id |-> IdC1 ],
    [ title |-> StrIntroBang, id |-> IdC2 ],
    [ title |-> StrCover,     id |-> IdC3 ],
    [ title |-> StrNotes,     id |-> IdToc ],
    [ title |-> StrBangs,     id |-> IdC3 ],
    [ title |-> StrIntro,     id |-> Undefined ] }

\* blocks of a chapter of the table, of a chapter that is not in it, without
\* a chapter (as the text and PDF parsers make them), and with blank text
BlockKinds ==
  { [ text |-> StrHello, chapter |-> IdC1,      chapterIndex |-> 0 ],
    [ text |-> StrBye,   chapter |-> IdC9,      chapterIndex |-> 1 ],
    [ text |-> StrText,  chapter |-> Undefined, chapterIndex |-> 0 ],
    [ text |-> StrBye,   chapter |-> Undefined, chapterIndex |-> 0 ],
    [ text |-> <<" ">>,  chapter |-> Undefined, chapterIndex |-> 0 ] }

TocInputs == UNION { [1..n -> TocKinds] : n \in 0..MaxToc }
ContentInputs == UNION { [1..n -> BlockKinds] : n \in 0..MaxContent }

\* the numbers of usable blocks a chapter is given in the id generator's runs
PageSizes == {1, CounterCycle + 1}

\* after how many calls of one page the clock may move on (n: not at all)
TickPoints(n) == IF now < MaxClock THEN {0, 1, n} \cap 0..n ELSE {n}

ExportInit ==
  /\ docToc \in TocInputs
  /\ docContent \in ContentInputs
  /\ validChapters = <<>>
  /\ contentByChapter = EmptyMap
  /\ chapterPos = 0
  /\ chapterData = <<>>
  /\ outFiles = EmptyMap
  /\ chapterFiles = <<>>
  /\ exportPc = "start"
  /\ now = 0
  /\ idCounter = 0
  /\ entryIds = <<>>
  /\ standaloneIds = <<>>
  /\ MarkupIdle /\ TxtIdle /\ ContentIdle /\ ImagesIdle /\ PdfIdle
     /\ DocumentIdle

\* generateBookInfoFiles up to the chapter loop: the chapter list, the write
\* of bookinfo.json and the grouping of the content
ExportStart ==
  /\ exportPc = "start"
  /\ validChapters' = ValidChaptersOf(docToc, docContent)
  /\ outFiles' = MapSet(EmptyMap, LitBookinfoJson,
                        [ chapters |-> BookInfoChapters(validChapters') ])
  /\ contentByChapter' = ContentByChapterOf(validChapters', docContent)
  /\ exportPc' = "chapters"
  /\ UNCHANGED <<docToc, docContent, chapterPos, chapterData, chapterFiles,
                 now, idCounter, entryIds, standaloneIds, notExportVars>>

\* one iteration of `for (const chapter of validChapters)`: the page is built
\* and the chapter file is written
WriteChapter ==
  /\ exportPc = "chapters"
  /\ chapterPos < Len(validChapters)
  /\ LET chapter        == validChapters[chapterPos + 1]
         chapterContent == IF chapter.tocId \in DOMAIN contentByChapter
                           THEN contentByChapter[chapter.tocId] ELSE <<>>
         n              == Len(SelectSeq(chapterContent, Usable))
         chapterFilePath == chapter.file \o LitJsonExt
     IN  \E k \in TickPoints(n) :
           LET ids == EntryIds(n, k, now, idCounter)
               data == ChapterDataOf(chapter, chapterContent, ids)
           IN  /\ chapterData' = Append(chapterData, data)
               /\ outFiles' = MapSet(outFiles, chapterFilePath, data)
               /\ chapterFiles' = Append(chapterFiles, chapterFilePath)
               /\ entryIds' = entryIds \o ids
               /\ idCounter' = (idCounter + n) % CounterCycle
               /\ now' = IF k < n THEN now + 1 ELSE now
  /\ chapterPos' = chapterPos + 1
  /\ UNCHANGED <<docToc, docContent, validChapters, contentByChapter, exportPc,
                 standaloneIds, notExportVars>>

\* the loop is over: generateBookInfoFiles returns
ExportReturn ==
  /\ exportPc = "chapters"
  /\ chapterPos = Len(validChapters)
  /\ exportPc' = "done"
  /\ UNCHANGED <<docToc, docContent, validChapters, contentByChapter, chapterPos,
                 chapterData, outFiles, chapterFiles, now, idCounter, entryIds,
                 standaloneIds, notExportVars>>

ExportNext ==
  \/ ExportStart
  \/ WriteChapter
  \/ ExportReturn

SpecExport == ExportInit /\ [][ExportNext]_vars

(***************************************************************************)
(* Documents whose chapter names exercise chapterNameToFileName            *)
(***************************************************************************)
StrChapter7  == <<"C","H","A","P","T","E","R","7">>
StrPartOne   == <<"P","a","r","t"," ","\t","O","n","e","!">>
StrChapter12 == <<"c","h","a","p","t","e","r"," "," ","1","2",":"," ","E","n","d">>

NamedTocKinds ==
  { [ title |-> LineChapter1, id |-> IdC1 ],
    [ title |-> StrChapter7,  id |-> IdC2 ],
    [ title |-> StrPartOne,   id |-> IdC3 ],
    [ title |-> StrChapter12, id |-> IdC9 ],
    [ title |-> StrBangs,     id |-> IdC1 ],
    [ title |-> <<" ">>,      id |-> IdC2 ],
    [ title |-> <<>>,         id |-> IdC3 ],
    [ title |-> LineLong,     id |-> Undefined ] }

NamedBlockKinds ==
  { [ text |-> <<>>,     chapter |-> IdC2, chapterIndex |-> 2 ],
    [ text |-> StrBangs, chapter |-> IdC3, chapterIndex |-> 0 ] }

NamedInit ==
  /\ docToc \in UNION { [1..n -> NamedTocKinds] : n \in 0..MaxToc }
  /\ docContent \in UNION { [1..n -> NamedBlockKinds] : n \in 0..MaxContent }
  /\ validChapters = <<>>
  /\ contentByChapter = EmptyMap
  /\ chapterPos = 0
  /\ chapterData = <<>>
  /\ outFiles = EmptyMap
  /\ chapterFiles = <<>>
  /\ exportPc = "start"
  /\ now = 0
  /\ idCounter = 0
  /\ entryIds = <<>>
  /\ standaloneIds = <<>>
  /\ MarkupIdle /\ TxtIdle /\ ContentIdle /\ ImagesIdle /\ PdfIdle
     /\ DocumentIdle

SpecSlugs == NamedInit /\ [][ExportNext]_vars

(***************************************************************************)
(* createDocumentStructure                                                 *)
(***************************************************************************)
LitZhCN == <<"z","h","-","C","N">>

\* the values of the metadata keys before the spread of the argument; null is
\* written as Undefined
MetadataDefaults(metadata) ==
  LET or(k, d) == IF k \in DOMAIN metadata /\ Truthy(metadata[k])
                  THEN metadata[k] ELSE d
  IN  [ title            |-> or("title", <<>>),
        author           |-> or("author", <<>>),
        creator          |-> or("creator", <<>>),
        subject          |-> or("subject", <<>>),
        keywords         |-> or("keywords", <<>>),
        creationDate     |-> or("creationDate", Undefined),
        modificationDate |-> or("modificationDate", Undefined),
        language         |-> or("language", LitZhCN) ]

\* { ...defaults, ...metadata }
SpreadOver(defaults, metadata) ==
  [ k \in DOMAIN defaults \cup DOMAIN metadata |->
      IF k \in DOMAIN metadata THEN metadata[k] ELSE defaults[k] ]

RECURSIVE SpaceRuns(_)
\* the number of matches of /\s+/ in s
SpaceRuns(s) ==
  IF s = <<>> THEN 0
  ELSE IF IsSpace(Head(s)) THEN 1 + SpaceRuns(TrimStart(s))
  ELSE SpaceRuns(Tail(s))

RECURSIVE totalWords(_)
\* content.reduce((sum, item) => sum + (item.text ? item.text.split(/\s+/).length : 0), 0)
totalWords(cont) ==
  IF cont = <<>> THEN 0
  ELSE totalWords(SubSeq(cont, 1, Len(cont) - 1))
       + (IF Truthy(cont[Len(cont)].text) THEN SpaceRuns(cont[Len(cont)].text) + 1 ELSE 0)

\* a structure whose paragraph count is the number of words
DocumentCountingWords(metadata, cont, imgs, tocItems) ==
  [ metadata        |-> SpreadOver(MetadataDefaults(metadata), metadata),
    tableOfContents |-> tocItems,
    content         |-> cont,
    images          |-> imgs,
    stats           |-> [ totalParagraphs |-> totalWords(cont),
                          totalImages     |-> Len(imgs),
                          totalTocItems   |-> Len(tocItems),
                          totalWords      |-> totalWords(cont) ] ]

createDocumentStructure(metadata, cont, imgs, tocItems) ==
  [ metadata        |-> SpreadOver(MetadataDefaults(metadata), metadata),
    tableOfContents |-> tocItems,
    content         |-> cont,
    images          |-> imgs,
    stats           |-> [ totalParagraphs |-> Len(cont),
                          totalImages     |-> Len(imgs),
                          totalTocItems   |-> Len(tocItems),
                          totalWords      |-> totalWords(cont) ] ]

\* the arguments of the calls: the metadata of a parser, blocks, image records
\* and entries of a table of contents
MetadataInputs ==
  { [ title |-> <<>> ],
    [ title |-> StrIntro, language |-> <<"e","n">> ] }

ImageRecordInputs ==
  UNION { [1..n -> { SavedImage([id |-> <<"i","1">>, href |-> ImgPng,
                                 mediaType |-> MimePng], ImgPng) }] :
            n \in 0..MaxManifest }

DocTocInputs ==
  UNION { [1..n -> { [ title |-> StrIntro, id |-> IdC1 ],
                     [ title |-> StrIntro, id |-> Undefined ] }] :
            n \in 0..MaxToc }

DocumentInit ==
  /\ dsArgs \in [ metadata : MetadataInputs, content : ContentInputs,
                  images : ImageRecordInputs, toc : DocTocInputs ]
  /\ document = <<>>
  /\ dsPc = "called"
  /\ MarkupIdle /\ TxtIdle /\ ContentIdle /\ ImagesIdle /\ ExportIdle /\ PdfIdle

\* the call createDocumentStructure(metadata, content, images, toc)
CreateDocument ==
  /\ dsPc = "called"
  /\ document' = createDocumentStructure(dsArgs.metadata, dsArgs.content,
                                         dsArgs.images, dsArgs.toc)
  /\ dsPc' = "returned"
  /\ UNCHANGED <<dsArgs, notDocumentVars>>

DocumentNext == CreateDocument

SpecDocument == DocumentInit /\ [][DocumentNext]_vars

(***************************************************************************)
(* The ids of the pages of a process, page after page                      *)
(***************************************************************************)
IdsInit ==
  /\ docToc = <<>>
  /\ docContent = <<>>
  /\ validChapters = <<>>
  /\ contentByChapter = EmptyMap
  /\ chapterPos = 0
  /\ chapterData = <<>>
  /\ outFiles = EmptyMap
  /\ chapterFiles = <<>>
  /\ exportPc = "pages"
  /\ now = 0
  /\ idCounter \in {0, CounterCycle - 1}
  /\ entryIds = <<>>
  /\ standaloneIds = <<>>
  /\ MarkupIdle /\ TxtIdle /\ ContentIdle /\ ImagesIdle /\ PdfIdle
     /\ DocumentIdle

\* the forEach of one chapter over a bucket of n usable blocks: n calls of
\* generateUniqueId in a row
BuildPage(n) ==
  /\ exportPc = "pages"
  /\ chapterPos < MaxPages
  /\ \E k \in TickPoints(n) :
       /\ entryIds' = entryIds \o EntryIds(n, k, now, idCounter)
       /\ idCounter' = (idCounter + n) % CounterCycle
       /\ now' = IF k < n THEN now + 1 ELSE now
  /\ chapterPos' = chapterPos + 1
  /\ UNCHANGED <<docToc, docContent, validChapters, contentByChapter, chapterData,
                 outFiles, chapterFiles, exportPc, standaloneIds, notExportVars>>

\* time passes between two pages
ClockTick ==
  /\ exportPc \in {"pages", "standalone"}
  /\ now < MaxClock
  /\ now' = now + 1
  /\ UNCHANGED <<docToc, docContent, validChapters, contentByChapter, chapterPos,
                 chapterData, outFiles, chapterFiles, exportPc, idCounter, entryIds,
                 standaloneIds, notExportVars>>

IdsNext ==
  \/ \E n \in PageSizes : BuildPage(n)
  \/ ClockTick

SpecIds == IdsInit /\ [][IdsNext]_vars


(***************************************************************************)
(* The generateUniqueId of uniqueId.js, call after call                    *)
(***************************************************************************)
MaxCalls == 2

\* Math.floor(Math.random() * 10)
RandomDigits == 0..9

\* one call of the generateUniqueId of uniqueId.js when Date.now() reads t and
\* Math.floor(Math.random() * 10) is random
standaloneGenerateUniqueId(t, random) ==
  LET counter       == (random + 1) % CounterCycle
      timestampPart == SliceLast(TimestampString(t), 12)
      counterPart   == padStart(ToStr(counter), 4, "0")
  IN  timestampPart \o counterPart

StandaloneInit ==
  /\ docToc = <<>>
  /\ docContent = <<>>
  /\ validChapters = <<>>
  /\ contentByChapter = EmptyMap
  /\ chapterPos = 0
  /\ chapterData = <<>>
  /\ outFiles = EmptyMap
  /\ chapterFiles = <<>>
  /\ exportPc = "standalone"
  /\ now = 0
  /\ idCounter = 0
  /\ entryIds = <<>>
  /\ standaloneIds = <<>>
  /\ MarkupIdle /\ TxtIdle /\ ContentIdle /\ ImagesIdle /\ PdfIdle
     /\ DocumentIdle

\* one call of the generateUniqueId of uniqueId.js
StandaloneCall(random) ==
  /\ exportPc = "standalone"
  /\ Len(standaloneIds) < MaxCalls
  /\ standaloneIds' = Append(standaloneIds,
                        [ id |-> standaloneGenerateUniqueId(now, random), at |-> now ])
  /\ UNCHANGED <<docToc, docContent, validChapters, contentByChapter, chapterPos,
                 chapterData, outFiles, chapterFiles, exportPc, now, idCounter,
                 entryIds, notExportVars>>

StandaloneNext ==
  \/ \E random \in RandomDigits : StandaloneCall(random)
  \/ ClockTick

SpecStandaloneIds == StandaloneInit /\ [][StandaloneNext]_vars


(***************************************************************************)
(* Claims                                                                  *)
(***************************************************************************)

\* C3: the markup extractor emits heading and paragraph blocks in the order
\* in which their tags occur in the fragment: no block whose tag starts later
\* in the markup stands before a block whose tag starts earlier.
C3_BlocksInTagOrder ==
  mdone => \A i, j \in 1..Len(blocks) : i < j => blocks[i].at <= blocks[j].at

\* C4: every content block an extractor produces has text that is not empty
\* after trimming (markup extractor with its heading scan and fallback, and
\* the plain-text segmenter).
C4_NoBlankBlockText ==
  /\ mdone => \A i \in 1..Len(blocks) : Len(trim(blocks[i].text)) > 0
  /\ \A i \in 1..Len(paragraphs) : Len(trim(paragraphs[i].text)) > 0

\* the non-blank lines of the text, in order
ItemsOf(t) == SelectSeq(SplitOn(t, "\n"), LAMBDA l : Len(trim(l)) > 0)

\* C8: for a text of `Chapter <n>` lines and prose sentences separated by one
\* blank line, the segmenter returns one block per line, in input order: a
\* heading of level 1 for a chapter line and a paragraph for a prose sentence.
C8_ChapterProseBlocks ==
  (tdone /\ text \in ChapterProseInputs) =>
     /\ Len(paragraphs) = Len(ItemsOf(text))
     /\ \A k \in 1..Len(paragraphs) :
          /\ paragraphs[k].text = ItemsOf(text)[k]
          /\ IF ItemsOf(text)[k] \in ChapterLines
             THEN paragraphs[k].type = "heading" /\ paragraphs[k].level = 1
             ELSE paragraphs[k].type = "paragraph"

\* every getChapter callback has run
AllChapterCallbacksRan ==
  \A k \in 1..Len(flow) : chapterCb[k] \in {"done", "failed"}

\* a block without its chapterIndex
BlockBody(b) == [id |-> b.id, type |-> b.type, text |-> b.text, chapter |-> b.chapter]

RECURSIVE BlocksInFlowOrder(_)
\* the blocks of the fragments 1..k whose retrieval succeeded, in flow order
BlocksInFlowOrder(k) ==
  IF k = 0 THEN <<>>
  ELSE BlocksInFlowOrder(k - 1) \o
       (IF chapterCb[k] = "done"
        THEN extractParagraphsFromHTML(flow[k].text, flow[k].id, 0)
        ELSE <<>>)

\* C5: whatever the completion order of the callbacks, extractContent resolves
\* only when every callback has run, and the content it resolved with is the
\* concatenation, in flow order, of the blocks of the fragments that succeeded.
C5_JoinedInFlowOrder ==
  contentResolved =>
     /\ AllChapterCallbacksRan
     /\ [i \in 1..Len(content) |-> BlockBody(content[i])]
          = [i \in 1..Len(BlocksInFlowOrder(Len(flow))) |->
               BlockBody(BlocksInFlowOrder(Len(flow))[i])]

\* C6: a failed fragment is skipped and extractContent still resolves: once
\* every callback has run (nothing is left that could resolve the promise),
\* the promise is resolved, so parseEPUB can settle.
C6_ResolvedOnceAllRan ==
  (epubState # "parsing" /\ AllChapterCallbacksRan) => contentResolved

\* C9: whatever the completion order and the mix of successes and failures,
\* extractImages resolves only after every image callback has finished, with
\* exactly one record per image item, in the order of the manifest's items.
C9_OneRecordPerImageInOrder ==
  imagesResolved =>
     /\ \A k \in 1..Len(imageItems) : imgPc[k] = "done"
     /\ Len(images) = Len(imageItems)
     /\ \A k \in 1..Len(images) : images[k].id = imageItems[k].id

\* C9 witness: resolved with records that were pushed out of manifest order,
\* one of them a failure and one a saved image
C9_Witness ==
  /\ imagesResolved
  /\ Len(imageItems) >= 2
  /\ pushOrder # [k \in 1..Len(imageItems) |-> imageItems[k].id]
  /\ \E a, b \in 1..Len(images) : images[a].error /\ ~images[b].error

\* C10: no two images are written to the same path: the savedPath values of
\* the saved images are pairwise distinct.
C10_SavedPathsDistinct ==
  \A a, b \in 1..Len(images) :
     (a # b /\ ~images[a].error /\ ~images[b].error)
        => images[a].savedPath # images[b].savedPath

\* the block belongs to none of the chapters: it has no chapter id, or one
\* that is no chapter's tocId
Orphan(item) ==
  \/ ~Truthy(item.chapter)
  \/ \A c \in 1..Len(validChapters) : validChapters[c].tocId # item.chapter

\* C1: when generateBookInfoFiles has returned, every content block with
\* non-blank text that belongs to none of the chapters is an entry of the page
\* written for the first chapter: no such block is dropped.
C1_OrphansInFirstChapter ==
  exportPc = "done" =>
    \A i \in 1..Len(docContent) :
      (Usable(docContent[i]) /\ Orphan(docContent[i])) =>
        \E e \in 1..Len(chapterData[1].pages[1]) :
          chapterData[1].pages[1][e].en = trim(docContent[i].text)

\* C2: when generateBookInfoFiles has returned, the file slugs of the chapters
\* are pairwise distinct, every chapter file still holds what was written for
\* its chapter, and as many chapter files exist as there are chapters.
C2_ChapterFilesDistinct ==
  exportPc = "done" =>
    /\ \A a, b \in 1..Len(validChapters) :
         a # b => validChapters[a].file # validChapters[b].file
    /\ \A c \in 1..Len(validChapters) :
         outFiles[validChapters[c].file \o LitJsonExt] = chapterData[c]
    /\ Cardinality(DOMAIN outFiles \ {LitBookinfoJson}) = Len(validChapters)

\* C7: the ids generateUniqueId has given to page entries are pairwise
\* distinct, whatever the number of entries and however many of them fall
\* into one millisecond.
C7_EntryIdsDistinct == Cardinality(Range(entryIds)) = Len(entryIds)

\* C11: every block of the content array carries the identifier of the
\* fragment it was extracted from and, as its chapterIndex, the index of that
\* fragment in epub.flow, whatever the order in which the callbacks ran and
\* whichever retrievals failed.
C11_BlocksCarryFlowIndex ==
  \A i \in 1..Len(content) :
    \E k \in 1..Len(flow) :
      /\ flow[k].id = content[i].chapter
      /\ content[i].chapterIndex = k - 1

\* the text has a character that is not white space
NonBlank(t) == t # Undefined /\ \E j \in 1..Len(t) : ~IsSpace(t[j])

\* the document has no table of contents and none of its blocks has a chapter
NoTocNoChapters ==
  /\ docToc = <<>>
  /\ \A i \in 1..Len(docContent) : ~Truthy(docContent[i].chapter)

\* the en texts of the entries of a page
EnTexts(page) == [ e \in 1..Len(page) |-> page[e].en ]

\* the trimmed texts of the blocks with non-blank text, in the order of blks
NonBlankTexts(blks) ==
  LET kept == SelectSeq(blks, LAMBDA b : NonBlank(b.text))
  IN  [ i \in 1..Len(kept) |-> trim(kept[i].text) ]

\* C12: for a document with an empty table of contents whose blocks carry no
\* chapter id, the export has exactly one chapter, named "Chapter 1" with file
\* "chapter_1" and index 1, and its single page has one entry for every block
\* with non-blank text, in content order.
C12_DefaultChapterHoldsAll ==
  (exportPc = "done" /\ NoTocNoChapters) =>
    /\ Len(validChapters) = 1
    /\ validChapters[1].name = <<"C","h","a","p","t","e","r"," ","1">>
    /\ validChapters[1].file = <<"c","h","a","p","t","e","r","_","1">>
    /\ validChapters[1].index = 1
    /\ Len(chapterData) = 1
    /\ Len(chapterData[1].pages) = 1
    /\ EnTexts(chapterData[1].pages[1]) = NonBlankTexts(docContent)
    /\ outFiles[<<"c","h","a","p","t","e","r","_","1",".","j","s","o","n">>]
         = chapterData[1]

\* C12 witness: such an export is over for two blocks with different texts
C12_Witness ==
  /\ exportPc = "done"
  /\ NoTocNoChapters
  /\ Len(docContent) = 2
  /\ docContent[1].text = StrBye
  /\ docContent[2].text = StrText
  /\ Len(chapterData[1].pages[1]) = 2

\* the entry is on the denylist: its id, letters compared without case, is one
\* of the excluded ids, or its title, letters compared without case, has one
\* of the excluded keywords in it
Denied(tocItem) ==
  LET id    == toLowerCase(IF tocItem.id = Undefined THEN <<>> ELSE tocItem.id)
      title == toLowerCase(tocItem.title)
  IN  \/ \E d \in 1..Len(excludeIds) : id = excludeIds[d]
      \/ \E d \in 1..Len(excludeKeywords) :
           \E i \in 1..Len(title) :
             /\ i + Len(excludeKeywords[d]) - 1 <= Len(title)
             /\ SubSeq(title, i, i + Len(excludeKeywords[d]) - 1) = excludeKeywords[d]

\* C13: the chapters derived from the table of contents are exactly its
\* entries that are not on the denylist, in the order of the table and with
\* the indexes 1..n; when every entry is on the denylist, no chapter comes
\* from the table.
C13_ChaptersAreTocEntriesNotDenied ==
  exportPc # "start" /\ exportPc # "idle" /\ exportPc # "pages" =>
    LET kept == SelectSeq(docToc, LAMBDA t : ~Denied(t)) IN
    IF kept # <<>>
    THEN /\ Len(validChapters) = Len(kept)
         /\ \A i \in 1..Len(kept) :
              /\ validChapters[i].tocId = kept[i].id
              /\ validChapters[i].name = kept[i].title
              /\ validChapters[i].index = i
    ELSE \A c \in 1..Len(validChapters) : \A i \in 1..Len(docToc) :
           validChapters[c].tocId # docToc[i].id

\* C13 witness: an entry excluded by its id alone stands before an entry that
\* becomes the chapter with index 1
C13_Witness ==
  /\ exportPc = "done"
  /\ Len(docToc) = 2
  /\ docToc[1].title = StrNotes
  /\ docToc[1].id = IdToc
  /\ ~Denied(docToc[2])
  /\ Len(validChapters) = 1
  /\ validChapters[1].tocId = docToc[2].id

\* the bucket the chapter loop reads for the c-th chapter
BucketOf(c) ==
  IF validChapters[c].tocId \in DOMAIN contentByChapter
  THEN contentByChapter[validChapters[c].tocId] ELSE <<>>

\* C14: every chapter record written has exactly one page; the page has one
\* entry {en, zh: "", id} for every block of the chapter's bucket with non-blank
\* text, in bucket order, and is the empty page when the bucket has none, so
\* that pages is [[]] and never [].
C14_OnePagePerChapter ==
  \A c \in 1..Len(chapterData) :
    LET pages == chapterData[c].pages IN
    /\ Len(pages) = 1
    /\ EnTexts(pages[1]) = NonBlankTexts(BucketOf(c))
    /\ \A e \in 1..Len(pages[1]) :
         /\ DOMAIN pages[1][e] = {"en", "zh", "id"}
         /\ pages[1][e].zh = <<>>
         /\ pages[1][e].id \in Range(entryIds)

\* C14 witness: a chapter whose bucket has a block with text and a blank one
\* was written with a page of one entry, and a chapter with an empty bucket
\* with the empty page
C14_Witness ==
  /\ exportPc = "done"
  /\ \E c \in 1..Len(chapterData) :
       /\ Len(BucketOf(c)) = 2
       /\ Len(chapterData[c].pages[1]) = 1
  /\ \E c \in 1..Len(chapterData) :
       /\ BucketOf(c) = <<>>
       /\ chapterData[c].pages = << <<>> >>

\* no two blocks of the array have the same id
DistinctIds(blks) ==
  \A i, j \in 1..Len(blks) : i # j => blks[i].id # blks[j].id

\* C15: no two blocks of a content array have the same id: the array of the
\* plain-text segmenter, that of the PDF paragraph extractor, and that of
\* extractContent over fragments with distinct ids, fallback fragments
\* included.
C15_BlockIdsDistinct ==
  /\ DistinctIds(paragraphs)
  /\ DistinctIds(pdfParagraphs)
  /\ DistinctIds(content)

\* C15 witness: three fragments were extracted, one of them line by line with
\* no tag in it, and every one left a block
C15_Witness ==
  /\ Len(flow) = 3
  /\ \A k \in 1..3 : chapterCb[k] = "done"
  /\ \E k \in 1..3 : flow[k].text = <<"y">>
  /\ \E k \in 1..3 : flow[k].text # <<"y">>
  /\ Len(content) >= 4

\* C16: the structure createDocumentStructure returns has stats.totalParagraphs
\* = content.length, stats.totalImages = images.length and stats.totalTocItems
\* = toc.length, and its content, images and tableOfContents are the arrays
\* that were passed in.
C16_StatsCountTheArrays ==
  dsPc = "returned" =>
    /\ document.stats.totalParagraphs = Len(dsArgs.content)
    /\ document.stats.totalImages = Len(dsArgs.images)
    /\ document.stats.totalTocItems = Len(dsArgs.toc)
    /\ document.content = dsArgs.content
    /\ document.images = dsArgs.images
    /\ document.tableOfContents = dsArgs.toc

\* C16 witness: a structure was returned for arrays of three different lengths
C16_Witness ==
  /\ dsPc = "returned"
  /\ Len(dsArgs.content) = 2
  /\ Len(dsArgs.images) = 1
  /\ Len(dsArgs.toc) = 0
  /\ document.stats.totalParagraphs = 2
  /\ document.stats.totalWords = 3

\* the 12-character timestamp part and the counter suffix of a returned value
IdPrefix(id) == SubSeq(id, 1, 12)
IdSuffix(id) == SubSeq(id, 13, Len(id))

\* a returned value made at clock reading t has the shape the generators give:
\* the last 12 digits of the millisecond timestamp, then a 4-digit counter
IdShape(id, t) ==
  /\ Len(id) >= 16
  /\ IdPrefix(id) = SliceLast(TimestampString(t), 12)
  /\ Len(IdSuffix(id)) = 4
  /\ \A i \in 1..4 : IsDigit(IdSuffix(id)[i])

\* C17: every value an id generator returns is a string of at least 16
\* characters, the last 12 digits of the millisecond timestamp followed by a
\* 4-digit zero-padded counter, and any two calls made in the same millisecond
\* (and the same counter cycle) return values with the same 12-character
\* prefix and different 4-character suffixes; stated here for the generator of
\* uniqueId.js, whose calls are recorded with their millisecond.
C17_SameMillisecondIdsDiffer ==
  /\ \A i \in 1..Len(standaloneIds) :
       IdShape(standaloneIds[i].id, standaloneIds[i].at)
  /\ \A i, j \in 1..Len(standaloneIds) :
       (i < j /\ standaloneIds[i].at = standaloneIds[j].at)
         => /\ IdPrefix(standaloneIds[i].id) = IdPrefix(standaloneIds[j].id)
            /\ IdSuffix(standaloneIds[i].id) # IdSuffix(standaloneIds[j].id)

\* the line the next iteration of the segmenter's loop reads
StepLine == trim(TxtLines[li + 1])

\* a line of the form `<title> ... <page>` or `<number>. <title>`
TocForm(line) == DotsPageMatch(line).ok \/ NumberedMatch(line)

\* the region is entered only by a marker line
EnteredByMarker ==
  (~inTOCSection /\ inTOCSection') => IsTocMarker(StepLine)

\* inside the region, a line other than the marker ends the region exactly
\* when it is blank or longer than 50 characters
LeftAtBlankOrLong ==
  (inTOCSection /\ ~IsTocMarker(StepLine))
    => (~inTOCSection' <=> (Len(StepLine) = 0 \/ Len(StepLine) > 50))

\* an entry line gives a TOC entry and no block inside the region, and a
\* heading block and no TOC entry outside it
EntryLineByRegion ==
  (TocForm(StepLine) /\ ~IsTocMarker(StepLine))
    => IF inTOCSection
       THEN /\ Len(toc') = Len(toc) + 1
            /\ paragraphs' = paragraphs
            /\ currentParagraph' = currentParagraph
       ELSE /\ toc' = toc
            /\ Len(paragraphs') > Len(paragraphs)
            /\ paragraphs'[Len(paragraphs')].type = "heading"
            /\ paragraphs'[Len(paragraphs')].text = StepLine

\* the marker line gives neither a TOC entry nor a block
MarkerGivesNothing ==
  IsTocMarker(StepLine)
    => /\ toc' = toc
       /\ paragraphs' = paragraphs
       /\ currentParagraph' = currentParagraph

\* C18: in the plain-text segmenter the TOC region is entered only by a bare
\* marker line and is left at the first following line that is blank or longer
\* than 50 characters; a `<title> ... <page>` or `<number>. <title>` line
\* gives a TOC entry and no content block exactly when it is read inside the
\* region, the marker line gives neither, and outside the region such a line
\* gives a heading block and no TOC entry.
C18_TocRegion ==
  [][ (li' = li + 1)
        => /\ EnteredByMarker
           /\ LeftAtBlankOrLong
           /\ EntryLineByRegion
           /\ MarkerGivesNothing ]_vars

\* the characters a slug may have
SlugChars == Range(LowerChars) \cup Range(DigitChars) \cup {"_"}

\* a leading "chapter N" phrase becomes chapter_N
ChapterPhrase(s) ==
  LET w == RunLen(s, 8, IsSpace)
      d == RunLen(s, 8 + w, IsDigit)
  IN  IF Len(s) >= 8 /\ SubSeq(s, 1, 7) = LitChapter /\ d >= 1
      THEN LitChapterUnderscore \o From(s, 8 + w)
      ELSE s

RECURSIVE OneUnderscorePerRun(_)
\* each whitespace run replaced by one underscore
OneUnderscorePerRun(s) ==
  IF s = <<>> THEN <<>>
  ELSE IF IsSpace(s[1]) /\ Len(s) >= 2 /\ IsSpace(s[2])
  THEN OneUnderscorePerRun(Tail(s))
  ELSE <<IF IsSpace(s[1]) THEN "_" ELSE s[1]>> \o OneUnderscorePerRun(Tail(s))

\* the lowercased name with the characters outside a-z, 0-9 and whitespace
\* removed, the leading chapter phrase rewritten and the whitespace runs
\* replaced
DerivedSlug(name) ==
  LET lower == toLowerCase(name)
      kept  == SelectSeq(lower, LAMBDA c : c \in SlugChars \ {"_"} \/ IsSpace(c))
  IN  OneUnderscorePerRun(ChapterPhrase(kept))

\* the first n characters of s
CutTo(s, n) == SubSeq(s, 1, IF Len(s) < n THEN Len(s) ELSE n)

\* the slug has the shape of a file name
SlugShape(slug) ==
  /\ slug # <<>>
  /\ Len(slug) <= SlugLimit
  /\ \A k \in 1..Len(slug) : slug[k] \in SlugChars

\* the slug a chapter has when the derivation of its name gave `derived`
SlugFrom(derived, chapter) ==
  IF derived # <<>> THEN derived ELSE LitChapterUnderscore \o ToStr(chapter.index)

\* C19, as stated: every chapter's slug is non-empty, at most 50 characters
\* long and made of a-z, 0-9 and underscore only, and it equals the lowercased
\* name with the other characters removed, each whitespace run replaced by one
\* underscore and a leading "chapter N" phrase made chapter_N, or
\* chapter_<positional index> when that derivation is empty.
C19_SlugIsTheDerivation ==
  exportPc # "start"
    => \A i \in 1..Len(validChapters) :
         /\ SlugShape(validChapters[i].file)
         /\ validChapters[i].file
              = SlugFrom(DerivedSlug(validChapters[i].name), validChapters[i])

\* C19, amended: every chapter's slug is non-empty, at most 50 characters long
\* and made of a-z, 0-9 and underscore only, and it equals the first 50
\* characters of that derivation, or chapter_<positional index> when the
\* derivation is empty.
C19_SlugIsTheCutDerivation ==
  exportPc # "start"
    => \A i \in 1..Len(validChapters) :
         /\ SlugShape(validChapters[i].file)
         /\ validChapters[i].file
              = SlugFrom(CutTo(DerivedSlug(validChapters[i].name), SlugLimit),
                         validChapters[i])

\* the chapter list holds a chapter whose derivation was cut and one whose
\* derivation was empty
C19_Witness ==
  /\ exportPc = "done"
  /\ \E i \in 1..Len(validChapters) :
       /\ Len(DerivedSlug(validChapters[i].name)) > SlugLimit
       /\ Len(validChapters[i].file) = SlugLimit
  /\ \E i \in 1..Len(validChapters) :
       /\ DerivedSlug(validChapters[i].name) = <<>>
       /\ validChapters[i].file = LitChapterUnderscore \o ToStr(i)

====
